---- MODULE Spec2Model ----
(***************************************************************************)
(* A model of the vibes-tracker collection pipeline: the quota ledger      *)
(* (QuotaTracker), the metered rate limiter's call wrapper, the handle     *)
(* resolution and listing of the Collection stage, and the run-level       *)
(* persistence of the collected and the enriched dataset, the transcript   *)
(* and analysis caches with the enrichment of one item, and the token      *)
(* bucket.                                                                 *)
(*                                                                         *)
(* The specifications share the variables:                                 *)
(*   SpecLedger      the ledger and the wrapper, driven by arbitrary calls;*)
(*   SpecCollect     Collection runs, one step per handle of the config;   *)
(*   SpecEnrich      Collection and Enrichment runs, the persisted files;  *)
(*   SpecCacheRaw    direct calls of the transcript cache;                 *)
(*   SpecItem        process_video calls on one item and its cache files;  *)
(*   SpecBucket      threads inside RateLimiter.acquire, step by step;     *)
(*   SpecBucketFair  the same under fair scheduling and advancing time;    *)
(*   SpecFetch       calls through the scraping limiter's retry loop;      *)
(*   SpecPool        the worker pool of run_analysis, step by step;        *)
(*   SpecSnapshot    dataset writes, midnights and dated snapshots;        *)
(*   SpecStages      whole ingest.py and analyze.py processes, the run     *)
(*                   metadata and the snapshots they take;                 *)
(*   SpecGate        workers at the scraping limiter's pacing gate.        *)
(***************************************************************************)
EXTENDS Integers, Sequences, FiniteSets, TLC

\* ---------------------------------------------------------------- bounds

\* QuotaTracker(daily_limit=...): the configured daily budget.
DailyLimit == 205
\* Largest unit count of one log_youtube_api_call in SpecLedger.
MaxUnits == 3
\* How far past the limit SpecLedger lets the total run.
MaxOver == 3
\* rate_limiting.youtube_api.max_retries: attempts of one wrapped call.
MaxRetries == 2
\* Cap of the throttle counter in SpecLedger.
MaxThrottled == 2
MaxBody == 2
Burst == 2
TokenScale == 2
MaxTime == 4
MaxCalls == 2
MaxMinDelay == 2
MaxFetchRetries == 3
\* The rows of the frame handed to the worker pool.
PoolSize == 2
\* The dates SpecSnapshot runs over.
MaxDays == 2
\* The stage processes SpecStages lets run.
MaxStages == 4

\* ------------------------------------------------------ program constants

\* The quota cost of a handle search, of an uploads-playlist lookup and of
\* one playlistItems page, as the call sites charge them.
SearchCost == 100
PlaylistLookupCost == 1
PlaylistItemsCost == 1
MinTranscriptLen == 100
\* log_summary: the units above which it warns.
HighUsageMark == 8000

VARIABLES
    \* QuotaTracker
    youtube_units,        \* self.youtube_units
    api_calls_throttled,  \* self.api_calls_throttled
    \* YouTubeAPIRateLimiter
    enabled,              \* self.enabled
    \* what the last operation did (history, read by the properties only)
    lastOp,               \* "none", "log_youtube_api_call", "wrapper"
    prevUnits,            \* youtube_units before the last operation
    lastUnits,            \* the units argument of the last log_youtube_api_call
    raised,               \* the exception the last operation raised, or "none"
    funcInvocations,      \* times the wrapped function ran in the last wrapper call
    \* the environment of a Collection run
    now,                  \* the wall clock, <<second, microsecond>>
    clusters_config,      \* config/clusters.json, flattened in iteration order
    cache_channel_ids,    \* config.ingest.cache_channel_ids
    \* persisted files
    cacheFile,            \* data/channel_ids.json
    metaFile,             \* data/metadata.json
    csvExists,            \* os.path.exists(config.paths.cluster_data)
    cluster_data,         \* the rows of data/cluster_data.csv
    analyzedExists,       \* os.path.exists(config.paths.analyzed_data)
    analyzed_data,        \* the rows of data/analyzed_data.csv
    \* the ingest process (ingest.py run as a script)
    pc,                   \* "idle" (no process), "loop", "exited"
    idx,                  \* position of the handle loop in clusters_config
    channel_id_cache,     \* the cache dict of ingest_clusters
    all_videos,           \* the all_videos list of ingest_clusters
    incremental_mode,     \* __main__'s incremental_mode
    incremental,          \* ingest_clusters' incremental, after the first-run check
    last_run,             \* ingest_clusters' last_run
    runs,                 \* ingest processes started so far
    analyses,             \* analyze.py processes run so far
    analysisMode,         \* how the last analyze.py process ran
    \* history of the run and of its last step (read by the properties only)
    noPrevRun,            \* no ingest timestamp was recorded when this run started
    quotaRaised,          \* QuotaExceeded was raised in this run
    raisedBefore,         \* quotaRaised as it was before the last step
    stepHit,              \* the last step found its handle in the cache
    stepFound,            \* the last step's search returned a channel
    searchCalls,       \* wrapped search().list calls the last step made
    listCalls,         \* wrapped channels / playlistItems calls of it
    stepFetched,          \* the videos get_recent_videos returned in the last step
    stepKept,             \* those of them the since-filter kept
    lookupCharges,        \* per channel: uploads-playlist lookups charged in this run
    runOutcome,           \* how the last process ended
    \* CacheManager: the files of its two directories
    linesep,              \* os.linesep of the platform
    transcript_files,     \* transcripts_dir: video id -> characters of {id}.txt
    analysis_files,       \* analysis_dir: video id -> content of {id}.json
    \* history: the last save_transcript that succeeded, the last cache call
    putKey,
    putText,
    putFresh,             \* no later write to putKey's file
    opKey,
    opIo,                 \* whether its file operation failed
    opRet,
    \* history: the last process_video
    pvTranscript,         \* the transcript it obtained
    pvFetched,            \* upstream transcript fetches it made
    pvInference,          \* requests it posted to the inference server
    pvResponse,           \* what the server answered
    pvWrote,              \* save_analysis was called
    pvCached,             \* the item's analysis file when it started
    pvIo,                 \* how its two cache reads went
    pvResult,             \* the record it returned
    attemptLog,           \* the last step's wrapped call: how its attempts ended
    retry_attempts,       \* QuotaTracker.retry_attempts
    rate_limit_errors,    \* QuotaTracker.rate_limit_errors
    \* RateLimiter (token bucket); time in ticks, tokens in units of 1/TokenScale
    tokens,               \* self._tokens
    sinceUpdate,          \* time.time() - self._last_update, as far as it matters
    lockHolder,           \* the thread holding self._lock
    tpc,                  \* per thread: where it is in acquire()
    want,                 \* per thread: the tokens argument of its call
    calls,                \* per thread: the acquire() calls it has made
    sleepLeft,            \* per thread: what is left of its time.sleep
    \* history
    slept,                \* per thread: its call has waited for a refill
    clock,                \* time since the bucket was made, up to MaxTime
    spent,                \* units debited so far, up to Burst * TokenScale + MaxTime
    who,                  \* the thread of the last acquire() that returned
    \* TranscriptRateLimiter; delays in units of 1/DelayScale second
    ts_config,            \* its enabled, min_delay and max_retries
    \* history: the last call of a function it wraps
    fetchLog,             \* how each invocation of the function ended
    backoffs,             \* the time.sleep made after each failed attempt
    fetchResult,          \* what the call returned or raised
    \* the worker pool of run_analysis
    poolDf,               \* the video_id column of df, row by row
    wpc,                  \* per row: where its process_video is
    wtmp,                 \* per row: the gemini_calls its += has loaded
    wout,                 \* per row: how its process_video ended
    gemini_calls,         \* QuotaTracker.gemini_calls
    collected,            \* the rows whose future the as_completed loop has handled
    results,              \* the results dict, by video_id
    merged,               \* the enrichment columns of df after the mapping
    \* history
    ledgerCalls,          \* log_gemini_api_call calls made by the workers
    \* data/historical
    today,                \* the current UTC date, as a day number
    historical,           \* per date: the two files of its snapshot directory
    \* history
    prevHistorical,       \* data/historical before the last snapshot
    \* history: the last CacheManager.get_transcript
    counted,              \* the counter it added to: cache_hits or cache_misses
    \* history: the stage runs of SpecStages
    stages,               \* how many stage processes have run
    loaded,               \* MetadataManager.metadata of the last one, as loaded
    stageIo,              \* how its metadata load and save went
    stageOutcome,         \* how it ended
    stageNew,             \* the rows its ingest_clusters returned
    \* history: the last QuotaTracker.log_summary
    warned,               \* it logged the high-usage warning
    wrapTrace,            \* what the last wrapped call did, in order
    acquireDelay,         \* the wait its acquire() returned, in hundredths of a second
    gpc,                  \* TranscriptRateLimiter: where each worker is in the wrapper
    gate_lock,            \* the holder of self._lock, or "free"
    last_fetch_time,      \* self._last_fetch_time
    gclock,               \* time.time()
    wakeAt,               \* when each worker's time.sleep ends
    stamps,               \* the values _last_fetch_time was set to, with the worker
    gatePasses,           \* the times each worker passed the gate in its current call
    attemptNo,            \* the attempt each worker's retry loop is at
    gateCalls             \* the wrapped calls each worker has made

ledgerVars == <<youtube_units, api_calls_throttled, enabled>>
historyVars == <<lastOp, prevUnits, lastUnits, raised, funcInvocations>>
envVars == <<now, clusters_config, cache_channel_ids>>
fileVars == <<cacheFile, metaFile, csvExists, cluster_data>>
procVars == <<pc, idx, channel_id_cache, all_videos, incremental_mode, incremental,
              last_run, runs>>
stepVars == <<noPrevRun, quotaRaised, raisedBefore, stepHit, stepFound, searchCalls,
              listCalls, stepFetched, stepKept, lookupCharges, runOutcome>>

analysisVars == <<analyzedExists, analyzed_data, analyses, analysisMode>>

cacheVars == <<linesep, transcript_files, analysis_files>>
pvVars == <<pvTranscript, pvFetched, pvInference, pvResponse, pvWrote, pvCached, pvIo,
            pvResult>>

bucketVars == <<tokens, sinceUpdate, lockHolder, tpc, want, calls, sleepLeft, slept, clock,
                spent, who>>

fetchVars == <<ts_config, fetchLog, backoffs, fetchResult>>

\* the parts of the later sections
poolVars == <<poolDf, wpc, wtmp, wout, gemini_calls, collected, results, merged,
              ledgerCalls>>

snapshotVars == <<today, historical, prevHistorical>>

\* the variables of the sections after these
stageVars == <<stages, loaded, stageIo, stageOutcome, stageNew>>

\* the last wrapped call of the metered limiter
callVars == <<wrapTrace, acquireDelay>>

\* the scraping limiter's pacing gate
gateVars == <<gpc, gate_lock, last_fetch_time, gclock, wakeAt, stamps, gatePasses,
              attemptNo, gateCalls>>

extraVars == <<counted, stageVars, warned, callVars, gateVars>>

moreVars == <<fetchVars, poolVars, snapshotVars, extraVars>>

\* the caches, the bucket and the later sections
storeVars == <<cacheVars, putKey, putText, putFresh, opKey, opIo, opRet, pvVars, bucketVars,
               moreVars>>

\* the ledger's counters of retries and of exhausted retries
retryVars == <<retry_attempts, rate_limit_errors>>

laterVars == <<attemptLog, retryVars, storeVars>>

\* everything of the ledger and the pipeline processes but lastOp
pipelineVars == <<ledgerVars, prevUnits, lastUnits, raised, funcInvocations, attemptLog,
                  retryVars,
                  envVars, fileVars, procVars, stepVars, analysisVars>>

\* what the stage processes of SpecStages leave alone, lastOp excepted
nonStageVars == <<ledgerVars, prevUnits, lastUnits, raised, funcInvocations, attemptLog,
                  retryVars, envVars, procVars, stepVars, cacheVars, putKey, putText,
                  putFresh, opKey, opIo, opRet, pvVars, bucketVars, fetchVars, poolVars,
                  counted, warned, callVars, gateVars>>

\* what the workers at the pacing gate leave alone, lastOp excepted
nonGateVars == <<pipelineVars, cacheVars, putKey, putText, putFresh, opKey, opIo, opRet,
                 pvVars, bucketVars, fetchVars, poolVars, snapshotVars, counted,
                 stageVars, warned, callVars>>

\* everything but the bucket and lastOp
nonBucketVars == <<pipelineVars, cacheVars, putKey, putText, putFresh, opKey, opIo, opRet,
                   pvVars, moreVars>>

vars == <<ledgerVars, historyVars, envVars, fileVars, procVars, stepVars, analysisVars,
          laterVars>>

\* ------------------------------------- the parts a specification leaves out

\* A file that does not exist; Python's None where a string is expected.
Absent == [exists |-> FALSE]
NoText == [none |-> TRUE]
\* An analysis file that a failed write left behind.
Partial == [partial |-> TRUE]

\* No cache call and no process_video made yet.
NoCacheCalls ==
    /\ putKey = "none"
    /\ putText = NoText
    /\ putFresh = FALSE
    /\ opKey = "none"
    /\ opIo = "none"
    /\ opRet = NoText
    /\ pvTranscript = NoText
    /\ pvFetched = 0
    /\ pvInference = 0
    /\ pvResponse = [kind |-> "none"]
    /\ pvWrote = FALSE
    /\ pvCached = Absent
    /\ pvIo = <<"none", "none">>
    /\ pvResult = <<>>
    /\ counted = "none"
    /\ warned = FALSE
    /\ wrapTrace = <<>>
    /\ acquireDelay = 0

\* No CacheManager.
NoCache ==
    /\ linesep = "LF"
    /\ transcript_files = <<>>
    /\ analysis_files = <<>>
    /\ NoCacheCalls

\* No RateLimiter.
NoBucket ==
    /\ tokens = 0
    /\ sinceUpdate = 0
    /\ lockHolder = "none"
    /\ tpc = <<>>
    /\ want = <<>>
    /\ calls = <<>>
    /\ sleepLeft = <<>>
    /\ slept = <<>>
    /\ clock = 0
    /\ spent = 0
    /\ who = "none"

\* No TranscriptRateLimiter.
NoFetch ==
    /\ ts_config = <<>>
    /\ fetchLog = <<>>
    /\ backoffs = <<>>
    /\ fetchResult = <<>>

\* No worker at the scraping limiter's gate.
NoGate ==
    /\ gpc = <<>>
    /\ gate_lock = "free"
    /\ last_fetch_time = 0
    /\ gclock = 0
    /\ wakeAt = <<>>
    /\ stamps = <<>>
    /\ gatePasses = <<>>
    /\ attemptNo = <<>>
    /\ gateCalls = <<>>

\* No worker pool.
NoPool ==
    /\ poolDf = <<>>
    /\ wpc = <<>>
    /\ wtmp = <<>>
    /\ wout = <<>>
    /\ gemini_calls = 0
    /\ collected = {}
    /\ results = <<>>
    /\ merged = <<>>
    /\ ledgerCalls = 0

\* No snapshot directory.
NoSnapshot ==
    /\ today = 1
    /\ historical = <<>>
    /\ prevHistorical = <<>>

\* No stage process has run.
NoStages ==
    /\ stages = 0
    /\ loaded = <<>>
    /\ stageIo = <<"none", "none">>
    /\ stageOutcome = "none"
    /\ stageNew = <<>>

\* None of the later sections.
NoMore ==
    /\ NoFetch
    /\ NoPool
    /\ NoSnapshot
    /\ NoStages
    /\ NoGate

\* No ledger in use and no pipeline process.
NoPipeline ==
    /\ youtube_units = 0
    /\ api_calls_throttled = 0
    /\ enabled = TRUE
    /\ lastOp = "none"
    /\ prevUnits = 0
    /\ lastUnits = 0
    /\ raised = "none"
    /\ funcInvocations = 0
    /\ attemptLog = <<>>
    /\ retry_attempts = 0
    /\ rate_limit_errors = 0
    /\ now = <<0, 0>>
    /\ clusters_config = <<>>
    /\ cache_channel_ids = TRUE
    /\ cacheFile = <<>>
    /\ metaFile = <<>>
    /\ csvExists = FALSE
    /\ cluster_data = <<>>
    /\ pc = "idle"
    /\ idx = 1
    /\ channel_id_cache = <<>>
    /\ all_videos = <<>>
    /\ incremental_mode = FALSE
    /\ incremental = FALSE
    /\ last_run = <<>>
    /\ runs = 0
    /\ noPrevRun = TRUE
    /\ quotaRaised = FALSE
    /\ raisedBefore = FALSE
    /\ stepHit = FALSE
    /\ stepFound = FALSE
    /\ searchCalls = 0
    /\ listCalls = 0
    /\ stepFetched = <<>>
    /\ stepKept = <<>>
    /\ lookupCharges = <<>>
    /\ runOutcome = "none"
    /\ analyzedExists = FALSE
    /\ analyzed_data = <<>>
    /\ analyses = 0
    /\ analysisMode = "none"

\* ------------------------------------------------------------ QuotaTracker

\* check_quota with a strict comparison: the limit itself would not raise.
check_quota_strict(units) == units > DailyLimit

\* QuotaTracker.check_quota: TRUE when it raises QuotaExceededException.
check_quota(units) == units >= DailyLimit

\* QuotaTracker.log_summary: whether it logs the high-usage warning.
high_usage_warning(units) == units > HighUsageMark

\* log_youtube_api_call that undoes the add when the check raises.
log_youtube_api_call_rollback(units_before, units) ==
    [units  |-> IF check_quota(units_before + units) THEN units_before
                ELSE units_before + units,
     raised |-> check_quota(units_before + units)]

\* QuotaTracker.log_youtube_api_call: add first, then check.
log_youtube_api_call(units_before, units) ==
    [units  |-> units_before + units,
     raised |-> check_quota(units_before + units)]

\* ---------------------------------------------------- YouTubeAPIRateLimiter

\* What one attempt of a wrapped function does: it returns, or raises an
\* HttpError of some status, or raises something that is no HttpError.
AttemptOutcome ==
    {"ok", "http500", "http429", "http403quota", "http403other", "http404", "other"}

IsHttpError(o) == o \in {"http500", "http429", "http403quota", "http403other", "http404"}

\* YouTubeAPIRateLimiter._is_rate_limit_error
is_rate_limit_error(o) == o \in {"http429", "http403quota"}

\* A classification that retries every HttpError.
should_retry_every_http_error(o) == IsHttpError(o)

\* YouTubeAPIRateLimiter._should_retry
should_retry(o) ==
    /\ IsHttpError(o)
    /\ (is_rate_limit_error(o) \/ o = "http500")

AttemptSeqs == [1..MaxRetries -> AttemptOutcome]

\* tenacity's loop without reraise=True: the last failure comes wrapped.
RECURSIVE retried_func_no_reraise(_, _)
retried_func_no_reraise(outs, n) ==
    IF outs[n] = "ok" THEN [invocations |-> n, result |-> "ok"]
    ELSE IF should_retry(outs[n])
         THEN IF n < MaxRetries THEN retried_func_no_reraise(outs, n + 1)
              ELSE [invocations |-> n, result |-> "RetryError"]
         ELSE [invocations |-> n, result |-> outs[n]]

\* tenacity's loop under retry_if_exception(_should_retry),
\* stop_after_attempt(max_retries), reraise=True: attempt n of the function.
RECURSIVE retried_func(_, _)
retried_func(outs, n) ==
    IF outs[n] = "ok" THEN [invocations |-> n, result |-> "ok"]
    ELSE IF should_retry(outs[n]) /\ n < MaxRetries THEN retried_func(outs, n + 1)
    ELSE [invocations |-> n, result |-> outs[n]]

\* rate_limit_youtube_api's wrapper around a function whose attempts end as
\* outs says: the function runs, whatever the ledger holds.
wrapper(isEnabled, outs) ==
    IF ~isEnabled THEN [invocations |-> 1, result |-> outs[1]]
    ELSE retried_func(outs, 1)

\* The waits acquire() can return, in hundredths of a second: none, exactly
\* 0.01 s, more.
AcquireWaits == {0, 1, 2}
\* "if delay > 0.01": the wait above which the wrapper calls log_throttle,
\* in hundredths of a second.
ThrottleThreshold == 1

Count(seq, x) == Cardinality({i \in 1..Len(seq) : seq[i] = x})

\* A wrapper that acquires a token before every attempt.
wrapper_trace_acquire_each(isEnabled, delay, invocations) ==
    IF ~isEnabled THEN <<"func">>
    ELSE (IF delay > ThrottleThreshold THEN <<"acquire", "log_throttle">>
          ELSE <<"acquire">>)
         \o [i \in 1..(2 * invocations - 1) |-> IF i % 2 = 1 THEN "func" ELSE "acquire"]

\* What rate_limit_youtube_api's wrapper does, in order: a disabled limiter
\* calls the function; an enabled one calls rate_limiter.acquire() (one
\* token), calls log_throttle when the wait it returned is above 0.01 s,
\* and then runs the attempts of the function under the retry decorator.
wrapper_trace(isEnabled, delay, invocations) ==
    IF ~isEnabled THEN <<"func">>
    ELSE (IF delay > ThrottleThreshold THEN <<"acquire", "log_throttle">>
          ELSE <<"acquire">>)
         \o [i \in 1..invocations |-> "func"]

ExceptionOf(result) ==
    IF result = "ok" THEN "none"
    ELSE IF IsHttpError(result) THEN "HttpError"
    ELSE IF result = "RetryError" THEN "RetryError"
    ELSE "Exception"

\* --------------------------------------------------------------- SpecLedger

InitLedger ==
    /\ youtube_units = 0
    /\ api_calls_throttled = 0
    /\ enabled \in BOOLEAN
    /\ lastOp = "none"
    /\ prevUnits = 0
    /\ lastUnits = 0
    /\ raised = "none"
    /\ funcInvocations = 0
    /\ now = <<0, 0>>
    /\ clusters_config = <<>>
    /\ cache_channel_ids = TRUE
    /\ cacheFile = <<>>
    /\ metaFile = <<>>
    /\ csvExists = FALSE
    /\ cluster_data = <<>>
    /\ pc = "idle"
    /\ idx = 1
    /\ channel_id_cache = <<>>
    /\ all_videos = <<>>
    /\ incremental_mode = FALSE
    /\ incremental = FALSE
    /\ last_run = <<>>
    /\ runs = 0
    /\ noPrevRun = TRUE
    /\ quotaRaised = FALSE
    /\ raisedBefore = FALSE
    /\ stepHit = FALSE
    /\ stepFound = FALSE
    /\ searchCalls = 0
    /\ listCalls = 0
    /\ stepFetched = <<>>
    /\ stepKept = <<>>
    /\ lookupCharges = <<>>
    /\ runOutcome = "none"
    /\ analyzedExists = FALSE
    /\ analyzed_data = <<>>
    /\ analyses = 0
    /\ analysisMode = "none"
    /\ attemptLog = <<>>
    /\ retry_attempts = 0
    /\ rate_limit_errors = 0
    /\ NoCache
    /\ NoBucket
    /\ NoMore

\* A caller records units on the ledger.
Record ==
    \E units \in (0..MaxUnits) \cup {SearchCost, PlaylistLookupCost, PlaylistItemsCost} :
        LET r == log_youtube_api_call(youtube_units, units) IN
        /\ youtube_units + units <= DailyLimit + MaxOver
        /\ youtube_units' = r.units
        /\ raised' = IF r.raised THEN "QuotaExceeded" ELSE "none"
        /\ lastOp' = "log_youtube_api_call"
        /\ prevUnits' = youtube_units
        /\ lastUnits' = units
        /\ funcInvocations' = 0
        /\ attemptLog' = <<>>
        /\ wrapTrace' = <<>>
        /\ acquireDelay' = 0
        /\ UNCHANGED retryVars
        /\ UNCHANGED analysisVars
        /\ UNCHANGED <<cacheVars, putKey, putText, putFresh, opKey, opIo, opRet, pvVars,
                       bucketVars, fetchVars, poolVars, snapshotVars, stageVars, counted,
                       warned, gateVars>>
        /\ UNCHANGED <<api_calls_throttled, enabled, envVars, fileVars, procVars, stepVars>>

\* A caller invokes a function decorated with rate_limit_youtube_api; the
\* function itself does not touch the ledger (the mock of the tests). The
\* attempts the call does not come to make are fixed. Between attempts
\* tenacity calls before_sleep_log, which writes to the logger; log_retry
\* has no caller. log_rate_limit_error is called where the wrapper catches
\* a RetryError.
WrappedCall ==
    \E outs \in AttemptSeqs, delay \in AcquireWaits :
        LET r == wrapper(enabled, outs)
            trace == wrapper_trace(enabled, delay, r.invocations)
        IN
        /\ \A i \in (r.invocations + 1)..MaxRetries : outs[i] = "ok"
        /\ ~enabled => delay = 0
        /\ delay > ThrottleThreshold => api_calls_throttled < MaxThrottled
        /\ wrapTrace' = trace
        /\ acquireDelay' = delay
        /\ api_calls_throttled' = api_calls_throttled + Count(trace, "log_throttle")
        /\ funcInvocations' = r.invocations
        /\ attemptLog' = SubSeq(outs, 1, r.invocations)
        /\ retry_attempts' = retry_attempts
        /\ rate_limit_errors' = rate_limit_errors + (IF r.result = "RetryError" THEN 1 ELSE 0)
        /\ raised' = ExceptionOf(r.result)
        /\ lastOp' = "wrapper"
        /\ prevUnits' = youtube_units
        /\ lastUnits' = 0
        /\ UNCHANGED analysisVars
        /\ UNCHANGED <<cacheVars, putKey, putText, putFresh, opKey, opIo, opRet, pvVars,
                       bucketVars, fetchVars, poolVars, snapshotVars, stageVars, counted,
                       warned, gateVars>>
        /\ UNCHANGED <<youtube_units, enabled, envVars, fileVars, procVars, stepVars>>

\* QuotaTracker.log_summary()
LogSummary ==
    /\ warned' = high_usage_warning(youtube_units)
    /\ lastOp' = "log_summary"
    /\ prevUnits' = youtube_units
    /\ lastUnits' = 0
    /\ raised' = "none"
    /\ funcInvocations' = 0
    /\ attemptLog' = <<>>
    /\ wrapTrace' = <<>>
    /\ acquireDelay' = 0
    /\ UNCHANGED <<ledgerVars, retryVars, envVars, fileVars, procVars, stepVars,
                   analysisVars, cacheVars, putKey, putText, putFresh, opKey, opIo, opRet,
                   pvVars, bucketVars, fetchVars, poolVars, snapshotVars, stageVars,
                   counted, gateVars>>

NextLedger == Record \/ WrappedCall \/ LogSummary

SpecLedger == InitLedger /\ [][NextLedger]_vars

\* ------------------------------------------------- the upstream, the clock

\* The seconds of the clock; the uploads are published at these seconds.
Seconds == {0, 1}
\* Processes (runs of ingest.py) one behaviour starts.
MaxRuns == 2
\* Processes (runs of analyze.py) one behaviour starts.
MaxAnalyses == 2
\* config.ingest.videos_per_channel, the maxResults of one listing.
VideosPerChannel == 3
\* The most items the upstream puts on one page of a listing (50 of them,
\* scaled down); what is left comes with a nextPageToken.
PageSize == 2

Handles == {"@h1", "@h2"}
Channels == {"UC1", "UC2"}
NoChannel == "None"

\* The channel the upstream search returns for a handle, when it returns one.
ChannelOf(h) == IF h = "@h1" THEN "UC1" ELSE "UC2"

\* The uploads playlist of a channel, most recent first; "vp" is listed with
\* the title "Private video".
Uploads(c) == IF c = "UC1" THEN <<"v2", "v1">> ELSE <<"v3", "vp", "v4">>
PublishSec(v) == IF v = "v1" THEN 0 ELSE 1
IsPrivateOrDeleted(v) == v = "vp"

\* The microsecond of an instant: zero, or some non-zero value.
Micros == {0, 500000}
Instants == Seconds \X Micros
Later(a, b) == a[1] > b[1] \/ (a[1] = b[1] /\ a[2] > b[2])
NotBefore(a, b) == a = b \/ Later(a, b)

\* A timestamp string, as far as Python's string comparison reads it: the
\* 19 characters "YYYY-MM-DDTHH:MM:SS" (the second), the code of the
\* character that follows them, and the microsecond digits after a ".".
\* Comparing these triples left to right is comparing the strings.
NoneTs == <<-1, 0, 0>>

\* item['snippet']['publishedAt']: "...SSZ" (ord("Z") = 90).
publishedAt(v) == <<PublishSec(v), 90, 0>>

\* datetime.isoformat() of a UTC instant: "...SS.ffffff+00:00", or
\* "...SS+00:00" when the microsecond is 0 (ord(".") = 46, ord("+") = 43).
isoformat(t) == IF t[2] = 0 THEN <<t[1], 43, 0>> ELSE <<t[1], 46, t[2]>>

\* The instant a timestamp string denotes.
InstantOf(ts) == <<ts[1], ts[3]>>

\* Python's a > b on two timestamp strings.
StrGreater(a, b) ==
    \/ a[1] > b[1]
    \/ a[1] = b[1] /\ a[2] > b[2]
    \/ a[1] = b[1] /\ a[2] = b[2] /\ a[3] > b[3]

\* clusters.json flattened: the (cluster, handle) pairs in loop order.
Entry(c, h) == [cluster |-> c, handle |-> h]
ConfigChoices ==
    { <<Entry("A", "@h1"), Entry("B", "@h1"), Entry("A", "@h2"), Entry("B", "@h2")>> }

\* The attempts of a wrapped upstream request in a Collection run: it
\* answers, fails with a server error (retried) or with a client error.
CollectOutcome == {"ok", "http500", "http404"}
CollectSeqs == [1..MaxRetries -> CollectOutcome]
WrapperResults(isEnabled) == { wrapper(isEnabled, outs) : outs \in CollectSeqs }
\* Whether a wrapped call returns its response (TRUE) or raises (FALSE).
Returns(isEnabled) == { r.result = "ok" : r \in WrapperResults(isEnabled) }

Min(a, b) == IF a < b THEN a ELSE b

\* ------------------------------------------------------------- ingest.py

EmptyCache == [h \in Handles |-> NoChannel]

\* resolve_channel_id that returns the channel it found without storing it.
resolve_channel_id_nostore(cache, handle, units, r, found) ==
    IF cache[handle] # NoChannel
    THEN [cid |-> cache[handle], cache |-> cache, units |-> units,
          propagates |-> FALSE, calls |-> 0]
    ELSE LET q == log_youtube_api_call(units, SearchCost) IN
         IF q.raised
         THEN [cid |-> NoChannel, cache |-> cache, units |-> q.units,
               propagates |-> TRUE, calls |-> 0]
         ELSE [cid |-> IF r /\ found THEN ChannelOf(handle) ELSE NoChannel,
               cache |-> cache, units |-> q.units,
               propagates |-> FALSE, calls |-> 1]

\* resolve_channel_id that charges the search only once it has returned.
resolve_channel_id_charge_after(cache, handle, units, r, found) ==
    IF cache[handle] # NoChannel
    THEN [cid |-> cache[handle], cache |-> cache, units |-> units,
          propagates |-> FALSE, calls |-> 0]
    ELSE IF ~r
    THEN [cid |-> NoChannel, cache |-> cache, units |-> units,
          propagates |-> FALSE, calls |-> 1]
    ELSE LET q == log_youtube_api_call(units, SearchCost) IN
         IF q.raised
         THEN [cid |-> NoChannel, cache |-> cache, units |-> q.units,
               propagates |-> TRUE, calls |-> 1]
         ELSE IF found
         THEN [cid |-> ChannelOf(handle),
               cache |-> [cache EXCEPT ![handle] = ChannelOf(handle)],
               units |-> q.units, propagates |-> FALSE, calls |-> 1]
         ELSE [cid |-> NoChannel, cache |-> cache, units |-> q.units,
               propagates |-> FALSE, calls |-> 1]

\* resolve_channel_id: the cache first; on a miss the 100 units are charged
\* (outside the try, so QuotaExceeded propagates), then the wrapped search
\* runs; r is whether it returned and found whether the response had an
\* item. Only a found channel is stored; every failure returns None.
resolve_channel_id(cache, handle, units, r, found) ==
    IF cache[handle] # NoChannel
    THEN [cid |-> cache[handle], cache |-> cache, units |-> units,
          propagates |-> FALSE, calls |-> 0]
    ELSE LET q == log_youtube_api_call(units, SearchCost) IN
         IF q.raised
         THEN [cid |-> NoChannel, cache |-> cache, units |-> q.units,
               propagates |-> TRUE, calls |-> 0]
         ELSE IF r /\ found
         THEN [cid |-> ChannelOf(handle),
               cache |-> [cache EXCEPT ![handle] = ChannelOf(handle)],
               units |-> q.units, propagates |-> FALSE, calls |-> 1]
         ELSE [cid |-> NoChannel, cache |-> cache, units |-> q.units,
               propagates |-> FALSE, calls |-> 1]

\* The items of one playlistItems page for a channel at a given second: its
\* uploads published so far, at most maxResults of them.
RECURSIVE PublishedBy(_, _)
PublishedBy(vs, sec) ==
    IF vs = <<>> THEN <<>>
    ELSE IF PublishSec(Head(vs)) <= sec THEN <<Head(vs)>> \o PublishedBy(Tail(vs), sec)
    ELSE PublishedBy(Tail(vs), sec)

playlistItems(cid, limit, sec) ==
    LET all == PublishedBy(Uploads(cid), sec)
    IN  SubSeq(all, 1, Min(Min(limit, PageSize), Len(all)))

\* The loop of get_recent_videos over res['items'].
RECURSIVE SkipPrivate(_)
SkipPrivate(vs) ==
    IF vs = <<>> THEN <<>>
    ELSE IF IsPrivateOrDeleted(Head(vs)) THEN SkipPrivate(Tail(vs))
    ELSE <<Head(vs)>> \o SkipPrivate(Tail(vs))

\* get_recent_videos: the uploads-playlist lookup (r1 whether its request
\* answered, has whether the answer holds an item) and one page of playlist
\* items (r2), each charged one unit inside the wrapped function, after its
\* request answered; any exception, QuotaExceeded and the IndexError of an
\* empty answer included, is caught and [] returned.
get_recent_videos(units, cid, limit, r1, has, r2, sec) ==
    IF ~r1
    THEN [videos |-> <<>>, units |-> units, quota |-> FALSE,
          calls |-> 1, lookupCharged |-> FALSE]
    ELSE LET q1 == log_youtube_api_call(units, PlaylistLookupCost) IN
         IF q1.raised
         THEN [videos |-> <<>>, units |-> q1.units, quota |-> TRUE,
               calls |-> 1, lookupCharged |-> TRUE]
         ELSE IF ~has
         THEN [videos |-> <<>>, units |-> q1.units, quota |-> FALSE,
               calls |-> 1, lookupCharged |-> TRUE]
         ELSE IF ~r2
         THEN [videos |-> <<>>, units |-> q1.units, quota |-> FALSE,
               calls |-> 2, lookupCharged |-> TRUE]
         ELSE LET q2 == log_youtube_api_call(q1.units, PlaylistItemsCost) IN
              IF q2.raised
              THEN [videos |-> <<>>, units |-> q2.units, quota |-> TRUE,
                    calls |-> 2,
                    lookupCharged |-> TRUE]
              ELSE [videos |-> SkipPrivate(playlistItems(cid, limit, sec)),
                    units |-> q2.units, quota |-> FALSE,
                    calls |-> 2,
                    lookupCharged |-> TRUE]

finally_save_skipped(cache_on, cache, file) == file

\* The finally block of ingest_clusters: what the cache file holds after it.
finally_save(cache_on, cache, file) == IF cache_on THEN cache ELSE file

\* The since-filter of ingest_clusters: v['publish_date'] > last_run, a
\* comparison of the two strings.
RECURSIVE since_filter(_, _)
since_filter(vs, since) ==
    IF vs = <<>> THEN <<>>
    ELSE IF StrGreater(publishedAt(Head(vs)), since)
         THEN <<Head(vs)>> \o since_filter(Tail(vs), since)
         ELSE since_filter(Tail(vs), since)

\* Step 4 of the loop: tag each video with the cluster name.
Tag(vs, cluster) ==
    [i \in 1..Len(vs) |-> [video_id |-> vs[i], cluster |-> cluster, run_timestamp |-> NoneTs]]

\* df.drop_duplicates(subset=['video_id'], keep='last')
RECURSIVE drop_duplicates_last(_)
drop_duplicates_last(rows) ==
    IF rows = <<>> THEN <<>>
    ELSE IF \E j \in 2..Len(rows) : rows[j].video_id = rows[1].video_id
         THEN drop_duplicates_last(Tail(rows))
         ELSE <<Head(rows)>> \o drop_duplicates_last(Tail(rows))

\* df['run_timestamp'] = ...
Stamp(rows, ts) == [i \in 1..Len(rows) |-> [rows[i] EXCEPT !.run_timestamp = ts]]

\* MetadataManager.should_run_incremental("ingest")
should_run_incremental_ingest(meta) == meta.last_ingest_timestamp # NoneTs

\* __main__'s "Determine incremental mode".
determine_incremental_mode(argIncremental, argFullRefresh, meta) ==
    argIncremental \/ (~argFullRefresh /\ should_run_incremental_ingest(meta))

\* The dataset __main__ writes: in incremental mode, with a file present,
\* the existing rows, then the new ones, de-duplicated by video_id.
merged_output(mode, exists, existing, df) ==
    IF mode /\ exists THEN drop_duplicates_last(existing \o df) ELSE df

Ids(rows) == { rows[i].video_id : i \in 1..Len(rows) }

\* ------------------------------------------------------------ analyze.py

\* MetadataManager.should_run_incremental("analysis")
should_run_incremental_analysis(meta) == meta.last_analysis_timestamp # NoneTs

\* df[df['run_timestamp'] > last_run], a comparison of strings.
analysis_filter(rows, since) ==
    LET newer(r) == StrGreater(r.run_timestamp, since) IN SelectSeq(rows, newer)

\* run_analysis' merge: the existing rows whose id is not among the new
\* ones, then the new rows.
analysis_merge(existing, df) ==
    LET kept(r) == r.video_id \notin Ids(df) IN SelectSeq(existing, kept) \o df

\* ------------------------------------------------------------- SpecCollect

NoStep ==
    /\ noPrevRun = TRUE
    /\ quotaRaised = FALSE
    /\ raisedBefore = FALSE
    /\ stepHit = FALSE
    /\ stepFound = FALSE
    /\ searchCalls = 0
    /\ listCalls = 0
    /\ stepFetched = <<>>
    /\ stepKept = <<>>
    /\ lookupCharges = [c \in Channels |-> 0]
    /\ runOutcome = "none"

InitCollect ==
    /\ youtube_units = 0
    /\ api_calls_throttled = 0
    /\ enabled \in BOOLEAN
    /\ lastOp = "none"
    /\ prevUnits = 0
    /\ lastUnits = 0
    /\ raised = "none"
    /\ funcInvocations = 0
    /\ now = <<0, 0>>
    /\ clusters_config \in ConfigChoices
    /\ cache_channel_ids \in BOOLEAN
    /\ cacheFile = EmptyCache
    /\ metaFile = [last_ingest_timestamp |-> NoneTs, last_analysis_timestamp |-> NoneTs]
    /\ csvExists = FALSE
    /\ cluster_data = <<>>
    /\ pc = "idle"
    /\ idx = 1
    /\ channel_id_cache = EmptyCache
    /\ all_videos = <<>>
    /\ incremental_mode = FALSE
    /\ incremental = FALSE
    /\ last_run = NoneTs
    /\ runs = 0
    /\ NoStep
    /\ analyzedExists = FALSE
    /\ analyzed_data = <<>>
    /\ analyses = 0
    /\ analysisMode = "none"
    /\ attemptLog = <<>>
    /\ retry_attempts = 0
    /\ rate_limit_errors = 0
    /\ NoCache
    /\ NoBucket
    /\ NoMore

\* Some time after the previous process, ingest.py starts: a new
\* QuotaTracker and MetadataManager, the mode, then ingest_clusters up to its
\* loop (the cache loaded, the first-run check).
StartIngest ==
    \E argIncremental \in BOOLEAN, argFullRefresh \in BOOLEAN, t \in Instants :
        LET mode == determine_incremental_mode(argIncremental, argFullRefresh, metaFile)
            since == IF mode THEN metaFile.last_ingest_timestamp ELSE NoneTs
        IN
        /\ pc = "idle"
        /\ runs < MaxRuns
        /\ NotBefore(t, now)
        /\ now' = t
        /\ runs' = runs + 1
        /\ youtube_units' = 0
        /\ api_calls_throttled' = 0
        /\ incremental_mode' = mode
        /\ last_run' = since
        /\ incremental' = (mode /\ since # NoneTs)
        /\ channel_id_cache' = cacheFile
        /\ all_videos' = <<>>
        /\ idx' = 1
        /\ pc' = "loop"
        /\ lastOp' = "StartIngest"
        /\ noPrevRun' = ~should_run_incremental_ingest(metaFile)
        /\ quotaRaised' = FALSE
        /\ raisedBefore' = FALSE
        /\ stepHit' = FALSE
        /\ stepFound' = FALSE
        /\ searchCalls' = 0
        /\ listCalls' = 0
        /\ stepFetched' = <<>>
        /\ stepKept' = <<>>
        /\ lookupCharges' = [c \in Channels |-> 0]
        /\ runOutcome' = "running"
        /\ prevUnits' = 0
        /\ UNCHANGED analysisVars
        /\ UNCHANGED laterVars
        /\ UNCHANGED <<enabled, lastUnits, raised, funcInvocations,
                       clusters_config, cache_channel_ids, fileVars>>

\* One iteration of the handle loop of ingest_clusters: resolve, fetch,
\* filter, tag. The token bucket lets every wrapped call through without a
\* wait over the throttle threshold (its pacing is not part of this
\* specification). A QuotaExceeded raised by the search charge leaves the loop:
\* the finally block saves the cache and the process dies with the exception.
ProcessHandle ==
    /\ pc = "loop"
    /\ idx <= Len(clusters_config)
    /\ LET e == clusters_config[idx]
           hit == channel_id_cache[e.handle] # NoChannel
       IN
       \E rs \in (IF hit THEN {TRUE} ELSE Returns(enabled)),
          found \in (IF hit THEN {TRUE} ELSE BOOLEAN) :
           LET res == resolve_channel_id(channel_id_cache, e.handle, youtube_units, rs, found)
               fetch == res.cid # NoChannel
           IN
           \E r1 \in (IF fetch THEN Returns(enabled) ELSE {TRUE}),
              has \in (IF fetch THEN BOOLEAN ELSE {TRUE}),
              r2 \in (IF fetch THEN Returns(enabled) ELSE {TRUE}) :
               LET got == IF fetch
                          THEN get_recent_videos(res.units, res.cid, VideosPerChannel,
                                                 r1, has, r2, now[1])
                          ELSE [videos |-> <<>>, units |-> res.units, quota |-> FALSE,
                                calls |-> 0, lookupCharged |-> FALSE]
                   kept == IF incremental /\ last_run # NoneTs
                           THEN since_filter(got.videos, last_run)
                           ELSE got.videos
               IN
                   /\ youtube_units' = got.units
                   /\ channel_id_cache' = res.cache
                   /\ all_videos' = all_videos \o Tag(kept, e.cluster)
                   /\ quotaRaised' = (quotaRaised \/ res.propagates \/ got.quota)
                   /\ raisedBefore' = quotaRaised
                   /\ stepHit' = hit
                   /\ stepFound' = (~hit /\ res.cid # NoChannel)
                   /\ searchCalls' = res.calls
                   /\ listCalls' = got.calls
                   /\ stepFetched' = got.videos
                   /\ stepKept' = kept
                   /\ lookupCharges' =
                        IF got.lookupCharged
                        THEN [lookupCharges EXCEPT ![res.cid] = @ + 1]
                        ELSE lookupCharges
                   /\ lastOp' = "ProcessHandle"
                   /\ raised' = IF res.propagates \/ got.quota THEN "QuotaExceeded"
                                ELSE "none"
                   /\ IF res.propagates
                      THEN /\ pc' = "exited"
                           /\ runOutcome' = "crashed"
                           /\ cacheFile' = finally_save(cache_channel_ids, res.cache,
                                                        cacheFile)
                           /\ idx' = idx
                      ELSE /\ pc' = "loop"
                           /\ runOutcome' = "running"
                           /\ cacheFile' = cacheFile
                           /\ idx' = idx + 1
                   /\ prevUnits' = youtube_units
                   /\ UNCHANGED analysisVars
                   /\ UNCHANGED laterVars
                   /\ UNCHANGED <<api_calls_throttled, enabled, lastUnits,
                                  funcInvocations, envVars, metaFile, csvExists, cluster_data, incremental_mode,
                                  incremental, last_run, runs, noPrevRun>>

\* The loop is over: the finally block saves the cache, ingest_clusters
\* returns the frame, and __main__ stamps it (at ts), merges, writes and
\* records it (update_ingest, at t).
\* MetadataManager.save swallows an I/O error (saved = FALSE).
FinishIngest ==
    /\ pc = "loop"
    /\ idx > Len(clusters_config)
    /\ \E ts \in Instants, t \in Instants, saved \in BOOLEAN :
        LET df == Stamp(all_videos, isoformat(ts))
            out == merged_output(incremental_mode, csvExists, cluster_data, df)
        IN
        /\ NotBefore(ts, now)
        /\ NotBefore(t, ts)
        /\ now' = t
        /\ cacheFile' = finally_save(cache_channel_ids, channel_id_cache, cacheFile)
        /\ IF all_videos # <<>>
           THEN /\ cluster_data' = out
                /\ csvExists' = TRUE
                /\ metaFile' = IF saved
                               THEN [metaFile EXCEPT !.last_ingest_timestamp = isoformat(t)]
                               ELSE metaFile
                /\ runOutcome' = "saved"
           ELSE /\ ts = now
                /\ t = now
                /\ saved
                /\ UNCHANGED <<cluster_data, csvExists, metaFile>>
                /\ runOutcome' = "nodata"
        /\ pc' = "exited"
        /\ lastOp' = "FinishIngest"
        /\ UNCHANGED analysisVars
        /\ UNCHANGED laterVars
        /\ UNCHANGED <<ledgerVars, prevUnits, lastUnits, raised, funcInvocations,
                       clusters_config, cache_channel_ids, idx, channel_id_cache,
                       all_videos, incremental_mode, incremental, last_run, runs,
                       noPrevRun, quotaRaised, raisedBefore, stepHit, stepFound, searchCalls,
                       listCalls, stepFetched, stepKept, lookupCharges>>

\* The process is gone, and its objects with it; the files stay.
ProcessExit ==
    /\ pc = "exited"
    /\ pc' = "idle"
    /\ youtube_units' = 0
    /\ api_calls_throttled' = 0
    /\ idx' = 1
    /\ channel_id_cache' = EmptyCache
    /\ all_videos' = <<>>
    /\ incremental_mode' = FALSE
    /\ incremental' = FALSE
    /\ last_run' = NoneTs
    /\ lastOp' = "ProcessExit"
    /\ prevUnits' = 0
    /\ raised' = "none"
    /\ noPrevRun' = TRUE
    /\ quotaRaised' = FALSE
    /\ raisedBefore' = FALSE
    /\ stepHit' = FALSE
    /\ stepFound' = FALSE
    /\ searchCalls' = 0
    /\ listCalls' = 0
    /\ stepFetched' = <<>>
    /\ stepKept' = <<>>
    /\ lookupCharges' = [c \in Channels |-> 0]
    /\ UNCHANGED analysisVars
    /\ UNCHANGED laterVars
    /\ UNCHANGED <<enabled, lastUnits, funcInvocations, envVars, fileVars, runs,
                   runOutcome>>

\* One run of analyze.py, start to end. It returns at once when Ollama is
\* not reachable or the collected dataset is missing. Otherwise: the mode
\* (reset to full when no analysis was recorded), the rows to process, their
\* enrichment (every row comes back, analysed or not; the enrichment columns
\* play no part in the merge and are left out), the merge, the write, and
\* update_analysis, whose save swallows an I/O error (saved = FALSE).
RunAnalysis ==
    /\ pc = "idle"
    /\ analyses < MaxAnalyses
    /\ \E argIncremental \in BOOLEAN, argFullRefresh \in BOOLEAN,
          ollama \in BOOLEAN, saved \in BOOLEAN, t \in Instants :
        LET asked == argIncremental
                      \/ (~argFullRefresh /\ should_run_incremental_analysis(metaFile))
            since == metaFile.last_analysis_timestamp
            mode == asked /\ since # NoneTs
            df == IF mode THEN analysis_filter(cluster_data, since) ELSE cluster_data
            out == IF mode /\ analyzedExists THEN analysis_merge(analyzed_data, df) ELSE df
        IN
        /\ NotBefore(t, now)
        /\ now' = t
        /\ analyses' = analyses + 1
        /\ IF ollama /\ csvExists
           THEN /\ analyzed_data' = out
                /\ analyzedExists' = TRUE
                /\ metaFile' = IF saved
                               THEN [metaFile EXCEPT !.last_analysis_timestamp = isoformat(t)]
                               ELSE metaFile
                /\ analysisMode' = IF mode THEN "incremental" ELSE "full"
           ELSE /\ t = now
                /\ saved
                /\ ~argIncremental
                /\ ~argFullRefresh
                /\ UNCHANGED <<analyzed_data, analyzedExists, metaFile>>
                /\ analysisMode' = "returned"
        /\ lastOp' = "RunAnalysis"
        /\ UNCHANGED <<ledgerVars, prevUnits, lastUnits, raised, funcInvocations,
                       clusters_config, cache_channel_ids, cacheFile, csvExists,
                       cluster_data, procVars, stepVars>>
        /\ UNCHANGED laterVars

NextCollect == StartIngest \/ ProcessHandle \/ FinishIngest \/ ProcessExit

SpecCollect == InitCollect /\ [][NextCollect]_vars

\* ------------------------------------------------------------- SpecEnrich

\* Collection and Enrichment runs, one process at a time, under the default
\* configuration (rate limiting and handle caching on).
InitEnrich ==
    /\ InitCollect
    /\ enabled
    /\ cache_channel_ids

NextEnrich == NextCollect \/ RunAnalysis

SpecEnrich == InitEnrich /\ [][NextEnrich]_vars

\* ------------------------------------------------------- cache_manager.py

\* Transcripts are strings. A string is modelled by its first characters
\* (body: ordinary characters "a", carriage returns and line feeds) followed
\* by pad further ordinary characters.
Chars == {"a", "CR", "LF"}

RECURSIVE SeqsUpTo(_, _)
SeqsUpTo(S, n) ==
    IF n = 0 THEN {<<>>}
    ELSE LET shorter == SeqsUpTo(S, n - 1)
         IN shorter \cup {Append(q, c) : q \in {r \in shorter : Len(r) = n - 1}, c \in S}

Text(body, pad) == [body |-> body, pad |-> pad]

\* The values handed to save_transcript directly.
Texts == {Text(b, 0) : b \in SeqsUpTo(Chars, MaxBody)}

len(t) == Len(t.body) + t.pad

\* open(path, 'w', encoding='utf-8').write(text): text mode with the default
\* newline=None writes every "\n" as os.linesep.
RECURSIVE write_newlines(_, _)
write_newlines(body, sep) ==
    IF body = <<>> THEN <<>>
    ELSE LET rest == write_newlines(Tail(body), sep)
         IN IF Head(body) = "LF" /\ sep = "CRLF"
            THEN <<"CR", "LF">> \o rest
            ELSE <<Head(body)>> \o rest

\* open(path, 'r', encoding='utf-8').read(): text mode with the default
\* newline=None reads "\r\n" and a lone "\r" as "\n".
RECURSIVE read_newlines(_)
read_newlines(body) ==
    IF body = <<>> THEN <<>>
    ELSE IF Head(body) = "CR"
         THEN IF Len(body) > 1 /\ body[2] = "LF"
              THEN <<"LF">> \o read_newlines(Tail(Tail(body)))
              ELSE <<"LF">> \o read_newlines(Tail(body))
         ELSE <<Head(body)>> \o read_newlines(Tail(body))

CacheKeys == {"k1", "k2"}

\* How a file operation ends: it succeeds, open() fails, or open() succeeds
\* (a file opened for writing is truncated by then) and the transfer fails.
WriteIo == {"ok", "open_error", "write_error"}
ReadIo == {"ok", "error"}

\* CacheManager.save_transcript: the files afterwards and the value returned.
CacheManager_save_transcript(files, sep, video_id, transcript, io) ==
    CASE io = "ok" ->
           [files |-> [files EXCEPT ![video_id] =
                          Text(write_newlines(transcript.body, sep), transcript.pad)],
            ret |-> TRUE]
      [] io = "write_error" ->
           [files |-> [files EXCEPT ![video_id] = Text(<<>>, 0)], ret |-> FALSE]
      [] OTHER -> [files |-> files, ret |-> FALSE]

\* CacheManager.get_transcript: the counter it adds one to, chosen by
\* cache_file.exists() before the file is opened.
counted_by_get(files, video_id) ==
    IF files[video_id] # Absent THEN "cache_hits" ELSE "cache_misses"

\* CacheManager.get_transcript: the text of the file, None when there is no
\* file or reading it fails.
CacheManager_get_transcript(files, video_id, io) ==
    IF files[video_id] = Absent \/ io # "ok"
    THEN NoText
    ELSE Text(read_newlines(files[video_id].body), files[video_id].pad)

\* CacheManager.get_analysis: the entry json.load reads, None when there is
\* no file or reading or decoding it fails (a file left by a failed write
\* does not decode).
CacheManager_get_analysis(files, video_id, io) ==
    IF files[video_id] = Absent \/ files[video_id] = Partial \/ io # "ok"
    THEN NoText
    ELSE files[video_id]

\* CacheManager.save_analysis at instant t.
CacheManager_save_analysis(files, video_id, analysis_data, t, io) ==
    CASE io = "ok" ->
           [files EXCEPT ![video_id] = [cached_at |-> isoformat(t), data |-> analysis_data]]
      [] io = "write_error" -> [files EXCEPT ![video_id] = Partial]
      [] OTHER -> files

\* ------------------------------------------------------------- analyze.py

\* What the upstream transcript fetch can give: an exception (None), or the
\* joined snippet texts: none at all, 99 and 100 ordinary characters, and
\* 100 characters that start with "\r\n".
Transcripts ==
    {NoText, Text(<<>>, 0), Text(<<>>, MinTranscriptLen - 1), Text(<<>>, MinTranscriptLen),
     Text(<<"CR", "LF">>, MinTranscriptLen - 2)}

required ==
    {"core_themes", "theme_categories", "overall_sentiment", "framing", "named_entities",
     "one_sentence_summary"}

\* What json.loads(result_json) gives: an object, a string or a scalar; names
\* are the required names `in` it (keys of an object, substrings of a
\* string); content tells one answer from another.
Parsed(type, names, content) == [type |-> type, names |-> names, content |-> content]

\* What a POST to the inference server ends in.
Responses ==
    {[kind |-> k] : k \in {"connection_error", "http_error", "invalid_json"}}
    \cup {[kind |-> "json", data |-> Parsed("object", required, c)] : c \in {"d1", "d2"}}
    \cup {[kind |-> "json", data |-> Parsed(ty, ns, "d1")] :
             ty \in {"object", "string"}, ns \in {required, required \ {"framing"}}}
    \cup {[kind |-> "json", data |-> Parsed("scalar", {}, "d1")]}

\* Python truthiness of a string-or-None.
Truthy(s) == s # NoText /\ len(s) > 0

\* get_transcript of analyze.py: the cached text if there is one, else the
\* upstream fetch (up), whose text is cached (the save's result is ignored).
get_transcript(files, sep, video_id, rio, up, wio) ==
    LET cached_transcript == CacheManager_get_transcript(files, video_id, rio)
    IN IF Truthy(cached_transcript)
       THEN [files |-> files, ret |-> cached_transcript, fetched |-> 0]
       ELSE IF up = NoText
            THEN [files |-> files, ret |-> NoText, fetched |-> 1]
            ELSE [files |-> CacheManager_save_transcript(files, sep, video_id, up, wio).files,
                  ret |-> up, fetched |-> 1]

\* Validation that accepts every parsed answer.
all_key_in_result_data_unchecked(result_data) == TRUE

\* all(key in result_data for key in required); `in` raises TypeError on a
\* scalar, which the outer except turns into None as well.
all_key_in_result_data(result_data) ==
    result_data.type # "scalar" /\ required \subseteq result_data.names

\* `if cached_analysis:` (an entry is a non-empty dict)
cache_hit(cached_analysis) == cached_analysis # NoText

\* analyze_transcript: the JSON text returned (by the value it denotes) or
\* None, the analysis files, the requests posted, whether save_analysis ran.
analyze_transcript(files, video_id, rio, resp, t, wio) ==
    LET cached_analysis == CacheManager_get_analysis(files, video_id, rio)
    IN IF cache_hit(cached_analysis)
       THEN [files |-> files, ret |-> cached_analysis.data, posts |-> 0, saved |-> FALSE]
       ELSE IF resp.kind = "json" /\ all_key_in_result_data(resp.data)
            THEN [files |-> CacheManager_save_analysis(files, video_id, resp.data, t, wio),
                  ret |-> resp.data, posts |-> 1, saved |-> TRUE]
            ELSE [files |-> files, ret |-> NoText, posts |-> 1, saved |-> FALSE]

\* The record process_video starts from.
NullRecord == [key \in required |-> "None"]

\* The record filled from the parsed analysis; data.get raises
\* AttributeError when the parsed value is not an object.
RecordOf(data) ==
    IF data.type = "object"
    THEN [key \in required |-> IF key \in data.names THEN data.content ELSE "None"]
    ELSE [raised |-> "AttributeError"]

\* A length check that lets every transcript through.
too_short_unchecked(transcript) == ~Truthy(transcript)

\* `not transcript or len(transcript) < 100`
too_short(transcript) == ~Truthy(transcript) \/ len(transcript) < MinTranscriptLen

\* ------------------------------------------------------------ SpecCacheRaw

\* Direct calls of the transcript cache on either platform.
InitCache ==
    /\ NoPipeline
    /\ NoCacheCalls
    /\ linesep \in {"LF", "CRLF"}
    /\ transcript_files = [k \in CacheKeys |-> Absent]
    /\ analysis_files = [k \in CacheKeys |-> Absent]
    /\ NoBucket
    /\ NoMore

\* CacheManager_save_transcript(video_id, transcript)
SaveTranscript ==
    \E k \in CacheKeys, v \in Texts, io \in WriteIo :
        LET r == CacheManager_save_transcript(transcript_files, linesep, k, v, io)
        IN
        /\ transcript_files' = r.files
        /\ opKey' = k
        /\ opIo' = io
        /\ opRet' = [returned |-> r.ret]
        /\ IF io = "ok"
           THEN /\ putKey' = k
                /\ putText' = v
                /\ putFresh' = TRUE
           ELSE /\ putFresh' = (putFresh /\ ~(k = putKey /\ io = "write_error"))
                /\ UNCHANGED <<putKey, putText>>
        /\ lastOp' = "save_transcript"
        /\ UNCHANGED <<pipelineVars, linesep, analysis_files, pvVars, bucketVars, moreVars>>

\* CacheManager_get_transcript(video_id)
GetTranscript ==
    \E k \in CacheKeys, io \in ReadIo :
        /\ opKey' = k
        /\ opIo' = io
        /\ opRet' = CacheManager_get_transcript(transcript_files, k, io)
        /\ counted' = counted_by_get(transcript_files, k)
        /\ lastOp' = "get_transcript"
        /\ UNCHANGED <<pipelineVars, cacheVars, putKey, putText, putFresh, pvVars, bucketVars,
                       fetchVars, poolVars, snapshotVars, stageVars, warned, callVars, gateVars>>

NextCacheRaw == SaveTranscript \/ GetTranscript

SpecCacheRaw == InitCache /\ [][NextCacheRaw]_vars

\* ---------------------------------------------------------------- SpecItem

\* process_video for one row, start to end: the transcript (cache read rio1,
\* upstream answer up, cache write wio1), the length check, the analysis
\* (cache read rio2, server answer resp, cache write wio2), the record. An
\* input that the call does not come to use is fixed. The call touches the
\* files of its own video id only; the rows processed carry one id.
RowIds == {"k1"}

ProcessVideo ==
    \E video_id \in RowIds, rio1 \in ReadIo, up \in Transcripts, wio1 \in WriteIo :
        LET g == get_transcript(transcript_files, linesep, video_id, rio1, up, wio1)
        IN
        /\ transcript_files[video_id] = Absent => rio1 = "ok"
        /\ (g.fetched = 0 \/ up = NoText) => wio1 = "ok"
        /\ g.fetched = 0 => up = NoText
        /\ transcript_files' = g.files
        /\ pvTranscript' = g.ret
        /\ pvFetched' = g.fetched
        /\ pvCached' = analysis_files[video_id]
        /\ opKey' = video_id
        /\ IF too_short(g.ret)
           THEN /\ pvInference' = 0
                /\ pvResponse' = [kind |-> "none"]
                /\ pvWrote' = FALSE
                /\ pvIo' = <<rio1, "none">>
                /\ pvResult' = NullRecord
                /\ UNCHANGED analysis_files
           ELSE \E rio2 \in ReadIo, resp \in Responses, wio2 \in WriteIo :
                    LET a == analyze_transcript(analysis_files, video_id, rio2, resp, now,
                                                wio2)
                    IN
                    /\ analysis_files[video_id] = Absent => rio2 = "ok"
                    /\ a.posts = 0 => resp = [kind |-> "connection_error"]
                    /\ ~a.saved => wio2 = "ok"
                    /\ analysis_files' = a.files
                    /\ pvInference' = a.posts
                    /\ pvResponse' = IF a.posts = 0 THEN [kind |-> "none"] ELSE resp
                    /\ pvWrote' = a.saved
                    /\ pvIo' = <<rio1, rio2>>
                    /\ pvResult' = IF a.ret = NoText THEN NullRecord ELSE RecordOf(a.ret)
        /\ lastOp' = "process_video"
        /\ UNCHANGED <<pipelineVars, linesep, putKey, putText, putFresh, opIo, opRet, bucketVars, moreVars>>

NextItem == ProcessVideo

SpecItem == InitCache /\ [][NextItem]_vars

\* ------------------------------------------------- rate_limiter.RateLimiter

\* One tick is 0.1 s, the longest single time.sleep of acquire(); the rate is
\* one token per TokenScale ticks, and a token is TokenScale units, so that
\* elapsed * requests_per_second is one unit per tick.
Threads == {"t1", "t2"}
Capacity == Burst * TokenScale

\* A refill of two units per tick.
add_tokens_fast(tok, elapsed) == Min(tok + 2 * elapsed, Capacity)

\* _add_tokens: min(self._tokens + elapsed * requests_per_second, burst_size)
add_tokens(tok, elapsed) == Min(tok + elapsed, Capacity)

\* A lock that lets every thread in.
lock_free_always(holder, t) == TRUE

\* self._lock can be taken by t: no thread holds it (an RLock lets its
\* holder in again).
lock_free(holder, t) == holder \in {"none", t}

\* A waiter that keeps the lock while it sleeps.
lock_during_sleep_kept(t) == t

\* self._lock.release() before time.sleep: nobody holds the lock.
lock_during_sleep(t) == "none"

InitBucket ==
    /\ NoPipeline
    /\ NoCache
    /\ NoMore
    /\ tokens = Capacity
    /\ sinceUpdate = 0
    /\ lockHolder = "none"
    /\ tpc = [t \in Threads |-> "idle"]
    /\ want = [t \in Threads |-> 1]
    /\ calls = [t \in Threads |-> 0]
    /\ sleepLeft = [t \in Threads |-> 0]
    /\ slept = [t \in Threads |-> FALSE]
    /\ clock = 0
    /\ spent = 0
    /\ who = "none"

\* A thread calls acquire(tokens) and comes to `with self._lock`.
Call(t) ==
    /\ tpc[t] = "idle"
    /\ calls[t] < MaxCalls
    /\ calls' = [calls EXCEPT ![t] = calls[t] + 1]
    /\ \E n \in 1..Burst : want' = [want EXCEPT ![t] = n]
    /\ tpc' = [tpc EXCEPT ![t] = "enter"]
    /\ slept' = [slept EXCEPT ![t] = FALSE]
    /\ lastOp' = "acquire"
    /\ UNCHANGED <<tokens, sinceUpdate, lockHolder, sleepLeft, clock, spent, who>>
    /\ UNCHANGED nonBucketVars

\* It gets the lock: at `with self._lock`, or at self._lock.acquire() after
\* its sleep.
Enter(t) ==
    /\ tpc[t] \in {"enter", "relock"}
    /\ lock_free(lockHolder, t)
    /\ lockHolder' = t
    /\ tpc' = [tpc EXCEPT ![t] = "loop"]
    /\ lastOp' = "lock"
    /\ UNCHANGED <<calls, tokens, sinceUpdate, want, sleepLeft, slept, clock, spent, who>>
    /\ UNCHANGED nonBucketVars

\* The head of the loop: _add_tokens(), then either enough tokens, or the
\* deficit, the release of the lock and the start of the sleep of
\* min(wait_time, 0.1).
Check(t) ==
    /\ tpc[t] = "loop"
    /\ tokens' = add_tokens(tokens, sinceUpdate)
    /\ sinceUpdate' = 0
    /\ IF tokens' >= want[t] * TokenScale
       THEN /\ tpc' = [tpc EXCEPT ![t] = "debit"]
            /\ UNCHANGED <<lockHolder, sleepLeft, slept>>
       ELSE /\ lockHolder' = lock_during_sleep(t)
            /\ sleepLeft' = [sleepLeft EXCEPT ![t] = Min(want[t] * TokenScale - tokens', 1)]
            /\ slept' = [slept EXCEPT ![t] = TRUE]
            /\ tpc' = [tpc EXCEPT ![t] = "sleep"]
    /\ lastOp' = "check"
    /\ UNCHANGED <<calls, want, clock, spent, who>>
    /\ UNCHANGED nonBucketVars

\* self._tokens -= tokens; return: the `with` block gives the lock back.
Debit(t) ==
    /\ tpc[t] = "debit"
    /\ tokens' = tokens - want[t] * TokenScale
    /\ spent' = Min(spent + want[t] * TokenScale, Capacity + MaxTime)
    /\ lockHolder' = "none"
    /\ tpc' = [tpc EXCEPT ![t] = "idle"]
    /\ who' = t
    /\ lastOp' = "acquired"
    /\ UNCHANGED <<calls, sinceUpdate, want, sleepLeft, slept, clock>>
    /\ UNCHANGED nonBucketVars

\* time.sleep returns, not before its time is over.
Wake(t) ==
    /\ tpc[t] = "sleep"
    /\ sleepLeft[t] = 0
    /\ tpc' = [tpc EXCEPT ![t] = "relock"]
    /\ lastOp' = "wake"
    /\ UNCHANGED <<calls, tokens, sinceUpdate, lockHolder, want, sleepLeft, slept, clock,
                   spent, who>>
    /\ UNCHANGED nonBucketVars

\* A tick of time.time(). What lies beyond a full bucket or beyond MaxTime
\* is not told apart.
Tick ==
    /\ sinceUpdate' = Min(sinceUpdate + 1, Capacity)
    /\ sleepLeft' = [t \in Threads |-> IF sleepLeft[t] > 0 THEN sleepLeft[t] - 1 ELSE 0]
    /\ clock' = Min(clock + 1, MaxTime)
    /\ lastOp' = "tick"
    /\ UNCHANGED <<calls, tokens, lockHolder, tpc, want, slept, spent, who>>
    /\ UNCHANGED nonBucketVars

\* What a thread does once it has called.
Step(t) == Enter(t) \/ Check(t) \/ Debit(t) \/ Wake(t)

NextBucket ==
    \/ Tick
    \/ \E t \in Threads : Call(t) \/ Enter(t) \/ Check(t) \/ Debit(t) \/ Wake(t)

SpecBucket == InitBucket /\ [][NextBucket]_vars

\* Time advances and every thread inside acquire() is scheduled again and
\* again, also when the lock is only free now and then.
SpecBucketFair ==
    /\ SpecBucket
    /\ WF_vars(Tick)
    /\ \A t \in Threads : SF_vars(Step(t))

\* --------------------------------------- rate_limiter.TranscriptRateLimiter

\* How one invocation of the wrapped fetch can end.
FetchOutcome == {"ok", "TranscriptsDisabled", "NoTranscriptFound", "IpBlocked"}

\* The limiters a configuration can make: min_delay in units of 1/DelayScale
\* second, max_retries at least 1.
TsConfigs ==
    [enabled : BOOLEAN, min_delay : 1..MaxMinDelay, max_retries : 1..MaxFetchRetries]

\* What the invocation numbered attempt gives back, what it raises.
Returned(attempt) == [returned |-> attempt]
Raised(error, attempt) == [raised |-> error, attempt |-> attempt]

backoff_delay_flat(min_delay, attempt) == min_delay

\* backoff_delay = self.min_delay * (2 ** (attempt - 1))
backoff_delay(min_delay, attempt) == min_delay * 2^(attempt - 1)

\* for attempt in range(1, self.max_retries + 1), from the given attempt on;
\* outs[i] is how the i-th invocation of func ends.
RECURSIVE retry_loop(_, _, _)
retry_loop(cfg, outs, attempt) ==
    IF outs[attempt] = "ok"
    THEN [invocations |-> attempt, backoffs |-> <<>>, result |-> Returned(attempt)]
    ELSE IF attempt < cfg.max_retries
         THEN LET rest == retry_loop(cfg, outs, attempt + 1)
              IN  [rest EXCEPT
                      !.backoffs = <<backoff_delay(cfg.min_delay, attempt)>> \o @]
         ELSE [invocations |-> attempt, backoffs |-> <<>>,
               result |-> Raised(outs[attempt], attempt)]

\* The wrapper of rate_limit_transcript_fetch; the pacing sleep before the
\* first attempt changes no result and is left to the clock.
rate_limit_transcript_fetch(cfg, outs) ==
    IF ~cfg.enabled
    THEN [invocations |-> 1, backoffs |-> <<>>,
          result |-> IF outs[1] = "ok" THEN Returned(1) ELSE Raised(outs[1], 1)]
    ELSE retry_loop(cfg, outs, 1)

\* ---------------------------------------------------------------- SpecFetch

InitFetch ==
    /\ NoPipeline
    /\ NoCache
    /\ NoBucket
    /\ ts_config \in TsConfigs
    /\ fetchLog = <<>>
    /\ backoffs = <<>>
    /\ fetchResult = <<>>
    /\ NoPool
    /\ NoSnapshot
    /\ NoStages
    /\ NoGate

\* One call of a function wrapped by the limiter.
FetchCall ==
    \E outs \in [1..MaxFetchRetries -> FetchOutcome] :
        LET r == rate_limit_transcript_fetch(ts_config, outs) IN
        /\ \A i \in (r.invocations + 1)..MaxFetchRetries : outs[i] = "ok"
        /\ fetchLog' = SubSeq(outs, 1, r.invocations)
        /\ backoffs' = r.backoffs
        /\ fetchResult' = r.result
        /\ lastOp' = "fetch"
        /\ UNCHANGED <<pipelineVars, cacheVars, putKey, putText, putFresh, opKey, opIo,
                       opRet, pvVars, bucketVars, ts_config, poolVars,
                       snapshotVars, extraVars>>

NextFetch == FetchCall

SpecFetch == InitFetch /\ [][NextFetch]_vars

\* ------------------------------- TranscriptRateLimiter: the pacing gate

\* The end of the clock of SpecGate, and the wrapped calls of one worker.
MaxGateTime == 7
MaxGateCalls == 2
\* The largest jitter_amount, in ticks (base_delay * delay_jitter * random()).
MaxJitter == 1

GateWorkers == {"w1", "w2"}

\* min_delay_seconds and max_delay_seconds in ticks, their sum even.
GateConfigs ==
    [enabled : BOOLEAN, min_delay : {1}, max_delay : {1, 3}, max_retries : {1, 2}]

\* base_delay = (self.min_delay + self.max_delay) / 2
base_delay(cfg) == (cfg.min_delay + cfg.max_delay) \div 2

\* A delay that starts from min_delay instead of the midpoint.
calculate_delay_from_min(cfg, jitter_amount) == cfg.min_delay + jitter_amount

\* TranscriptRateLimiter._calculate_delay
calculate_delay(cfg, jitter_amount) == base_delay(cfg) + jitter_amount

InitGate ==
    /\ NoPipeline
    /\ NoCache
    /\ NoBucket
    /\ NoPool
    /\ NoSnapshot
    /\ NoStages
    /\ ts_config \in GateConfigs
    /\ fetchLog = <<>>
    /\ backoffs = <<>>
    /\ fetchResult = <<>>
    /\ gpc = [w \in GateWorkers |-> "idle"]
    /\ gate_lock = "free"
    /\ last_fetch_time = 0
    /\ gclock \in {0, 2}
    /\ wakeAt = [w \in GateWorkers |-> 0]
    /\ stamps = <<>>
    /\ gatePasses = [w \in GateWorkers |-> 0]
    /\ attemptNo = [w \in GateWorkers |-> 0]
    /\ gateCalls = [w \in GateWorkers |-> 0]

\* A worker calls the wrapped fetch: a disabled limiter goes straight to
\* func, an enabled one to "with self._lock".
GateCall(w) ==
    /\ gpc[w] = "idle"
    /\ gateCalls[w] < MaxGateCalls
    /\ gateCalls' = [gateCalls EXCEPT ![w] = @ + 1]
    /\ gatePasses' = [gatePasses EXCEPT ![w] = 0]
    /\ attemptNo' = [attemptNo EXCEPT ![w] = IF ts_config.enabled THEN 0 ELSE 1]
    /\ gpc' = [gpc EXCEPT ![w] = IF ts_config.enabled THEN "lock" ELSE "func"]
    /\ lastOp' = "GateCall"
    /\ UNCHANGED nonGateVars
    /\ UNCHANGED <<gate_lock, last_fetch_time, gclock, wakeAt, stamps>>

\* The worker takes the lock, reads the clock, computes the delay and the
\* wait, and sleeps when the wait is positive (the lock stays held).
EnterGate(w) ==
    /\ gpc[w] = "lock"
    /\ gate_lock = "free"
    /\ \E jitter_amount \in 0..MaxJitter :
        LET time_since_last == gclock - last_fetch_time
            wait_time == calculate_delay(ts_config, jitter_amount) - time_since_last
        IN  wakeAt' = [wakeAt EXCEPT ![w] = IF wait_time > 0 THEN gclock + wait_time
                                            ELSE gclock]
    /\ gate_lock' = w
    /\ gpc' = [gpc EXCEPT ![w] = "gate"]
    /\ lastOp' = "EnterGate"
    /\ UNCHANGED nonGateVars
    /\ UNCHANGED <<last_fetch_time, gclock, stamps, gatePasses, attemptNo, gateCalls>>

\* The sleep, if any, is over: self._last_fetch_time = time.time(), the
\* lock is released and the retry loop starts.
PassGate(w) ==
    /\ gpc[w] = "gate"
    /\ gclock >= wakeAt[w]
    /\ last_fetch_time' = gclock
    /\ stamps' = Append(stamps, [worker |-> w, time |-> gclock])
    /\ gatePasses' = [gatePasses EXCEPT ![w] = @ + 1]
    /\ gate_lock' = "free"
    /\ attemptNo' = [attemptNo EXCEPT ![w] = 1]
    /\ gpc' = [gpc EXCEPT ![w] = "func"]
    /\ lastOp' = "PassGate"
    /\ UNCHANGED nonGateVars
    /\ UNCHANGED <<gclock, wakeAt, gateCalls>>

\* One attempt of func: it returns (the call is over), or raises; a failed
\* attempt that is not the last sleeps the backoff, the last one re-raises.
GateAttempt(w) ==
    /\ gpc[w] = "func"
    /\ \E ok \in BOOLEAN :
        IF ok \/ ~ts_config.enabled \/ attemptNo[w] >= ts_config.max_retries
        THEN /\ gpc' = [gpc EXCEPT ![w] = "idle"]
             /\ UNCHANGED wakeAt
        ELSE /\ gpc' = [gpc EXCEPT ![w] = "backoff"]
             /\ wakeAt' = [wakeAt EXCEPT
                              ![w] = gclock + backoff_delay(ts_config.min_delay,
                                                            attemptNo[w])]
    /\ lastOp' = "GateAttempt"
    /\ UNCHANGED nonGateVars
    /\ UNCHANGED <<gate_lock, last_fetch_time, gclock, stamps, gatePasses, attemptNo,
                   gateCalls>>

\* The backoff sleep is over: the next attempt.
GateRetry(w) ==
    /\ gpc[w] = "backoff"
    /\ gclock >= wakeAt[w]
    /\ attemptNo' = [attemptNo EXCEPT ![w] = @ + 1]
    /\ gpc' = [gpc EXCEPT ![w] = "func"]
    /\ lastOp' = "GateRetry"
    /\ UNCHANGED nonGateVars
    /\ UNCHANGED <<gate_lock, last_fetch_time, gclock, wakeAt, stamps, gatePasses,
                   gateCalls>>

\* Time passes.
GateTick ==
    /\ gclock < MaxGateTime
    /\ gclock' = gclock + 1
    /\ lastOp' = "GateTick"
    /\ UNCHANGED nonGateVars
    /\ UNCHANGED <<gpc, gate_lock, last_fetch_time, wakeAt, stamps, gatePasses,
                   attemptNo, gateCalls>>

NextGate ==
    \/ GateTick
    \/ \E w \in GateWorkers :
          GateCall(w) \/ EnterGate(w) \/ PassGate(w) \/ GateAttempt(w) \/ GateRetry(w)

SpecGate == InitGate /\ [][NextGate]_vars

\* ------------------------------------------- analyze.py: the worker pool

\* The ids a frame can hold; a frame of the collected dataset can hold one id
\* in several rows (a channel listed under two clusters).
PoolIds == {"k1", "k2"}
PoolFrames == [1..PoolSize -> PoolIds]

\* How a process_video can end: with the analysis filled in, with the
\* enrichment fields left None, or with an exception.
WorkerOutcome == {"analysis", "null", "raised"}

NoEntry == [entry |-> FALSE]

\* The dict process_video returns for a video, its fields filled in or None.
worker_result(video_id, outcome) ==
    [video_id |-> video_id,
     fields |-> IF outcome = "analysis" THEN [key \in required |-> video_id]
                ELSE NullRecord]

\* What the as_completed loop stores for a future: result['video_id'] and
\* the result, or row['video_id'] and the all-None dict of the except clause.
store_result(res, video_id, outcome) ==
    [res EXCEPT ![video_id] =
        IF outcome = "raised" THEN worker_result(video_id, "null")
        ELSE worker_result(video_id, outcome)]

\* df[col] = df['video_id'].map(lambda vid: results.get(vid, {}).get(col))
map_results(df, res) ==
    [i \in DOMAIN df |-> IF res[df[i]] = NoEntry THEN NullRecord ELSE res[df[i]].fields]

\* ----------------------------------------------------------------- SpecPool

InitPool ==
    /\ NoPipeline
    /\ NoCache
    /\ NoBucket
    /\ NoFetch
    /\ poolDf \in PoolFrames
    /\ wpc = [i \in 1..PoolSize |-> "submitted"]
    /\ wtmp = [i \in 1..PoolSize |-> 0]
    /\ wout = [i \in 1..PoolSize |-> "none"]
    /\ gemini_calls = 0
    /\ collected = {}
    /\ results = [v \in PoolIds |-> NoEntry]
    /\ merged = <<>>
    /\ ledgerCalls = 0
    /\ NoSnapshot
    /\ NoStages
    /\ NoGate

\* log_gemini_api_call, first half of `self.gemini_calls += 1`: the worker
\* of row i, about to post its transcript, loads the counter.
LoadCounter(i) ==
    /\ wpc[i] = "submitted"
    /\ wpc' = [wpc EXCEPT ![i] = "loaded"]
    /\ wtmp' = [wtmp EXCEPT ![i] = gemini_calls]
    /\ ledgerCalls' = ledgerCalls + 1
    /\ lastOp' = "LoadCounter"
    /\ UNCHANGED <<poolDf, wout, gemini_calls, collected, results, merged>>
    /\ UNCHANGED <<pipelineVars, cacheVars, putKey, putText, putFresh, opKey, opIo, opRet,
                   pvVars, bucketVars, fetchVars, snapshotVars, extraVars>>

\* Second half: it stores what it loaded, plus one. No lock is held between
\* the two halves.
StoreCounter(i) ==
    /\ wpc[i] = "loaded"
    /\ wpc' = [wpc EXCEPT ![i] = "stored"]
    /\ gemini_calls' = wtmp[i] + 1
    /\ lastOp' = "StoreCounter"
    /\ UNCHANGED <<poolDf, wtmp, wout, collected, results, merged, ledgerCalls>>
    /\ UNCHANGED <<pipelineVars, cacheVars, putKey, putText, putFresh, opKey, opIo, opRet,
                   pvVars, bucketVars, fetchVars, snapshotVars, extraVars>>

\* The process_video of row i ends: without an inference call (no usable
\* transcript, or a cached analysis) or after it.
Finish(i) ==
    /\ wpc[i] \in {"submitted", "stored"}
    /\ \E outcome \in WorkerOutcome :
        wout' = [wout EXCEPT ![i] = outcome]
    /\ wpc' = [wpc EXCEPT ![i] = "done"]
    /\ lastOp' = "Finish"
    /\ UNCHANGED <<poolDf, wtmp, gemini_calls, collected, results, merged, ledgerCalls>>
    /\ UNCHANGED <<pipelineVars, cacheVars, putKey, putText, putFresh, opKey, opIo, opRet,
                   pvVars, bucketVars, fetchVars, snapshotVars, extraVars>>

\* One round of the as_completed loop: it takes a finished future that it
\* has not handled yet.
Collect(i) ==
    /\ wpc[i] = "done"
    /\ i \notin collected
    /\ collected' = collected \cup {i}
    /\ results' = store_result(results, poolDf[i], wout[i])
    /\ lastOp' = "Collect"
    /\ UNCHANGED <<poolDf, wpc, wtmp, wout, gemini_calls, merged, ledgerCalls>>
    /\ UNCHANGED <<pipelineVars, cacheVars, putKey, putText, putFresh, opKey, opIo, opRet,
                   pvVars, bucketVars, fetchVars, snapshotVars, extraVars>>

\* The loop has handled every future and the executor is shut down: the
\* results are mapped back to the frame.
MapResults ==
    /\ collected = DOMAIN poolDf
    /\ merged = <<>>
    /\ merged' = map_results(poolDf, results)
    /\ lastOp' = "MapResults"
    /\ UNCHANGED <<poolDf, wpc, wtmp, wout, gemini_calls, collected, results, ledgerCalls>>
    /\ UNCHANGED <<pipelineVars, cacheVars, putKey, putText, putFresh, opKey, opIo, opRet,
                   pvVars, bucketVars, fetchVars, snapshotVars, extraVars>>

NextPool ==
    \/ MapResults
    \/ \E i \in 1..PoolSize : LoadCounter(i) \/ StoreCounter(i) \/ Finish(i) \/ Collect(i)

SpecPool == InitPool /\ [][NextPool]_vars

\* ------------------------------------------------------ analysis/temporal.py

\* The dates a run can fall on, and what a dataset file can hold.
Days == 1..MaxDays
DatasetContents == {<<"v1">>, <<"v2", "v1">>}

\* A file that exists, with its content.
File(content) == [exists |-> TRUE, content |-> content]

save_historical_snapshot_keep_first(hist, day, cExists, c, aExists, a) ==
    [hist EXCEPT ![day] =
        [cluster_data |-> IF cExists /\ ~@.cluster_data.exists THEN File(c)
                          ELSE @.cluster_data,
         analyzed_data |-> IF aExists /\ ~@.analyzed_data.exists THEN File(a)
                           ELSE @.analyzed_data]]

\* save_historical_snapshot: the directory of the day is made if need be,
\* and each dataset file that exists is copied into it (shutil.copy, which
\* overwrites the copy that is there).
save_historical_snapshot(hist, day, cExists, c, aExists, a) ==
    [hist EXCEPT ![day] =
        [cluster_data |-> IF cExists THEN File(c) ELSE @.cluster_data,
         analyzed_data |-> IF aExists THEN File(a) ELSE @.analyzed_data]]

\* ------------------------------------------------------------- SpecSnapshot

InitSnapshot ==
    /\ NoPipeline
    /\ NoCache
    /\ NoBucket
    /\ NoFetch
    /\ NoPool
    /\ NoStages
    /\ NoGate
    /\ today = 1
    /\ historical = [d \in Days |-> [cluster_data |-> Absent, analyzed_data |-> Absent]]
    /\ prevHistorical = historical

\* A Collection run writes the collected dataset.
WriteCollected ==
    /\ \E c \in DatasetContents : cluster_data' = c
    /\ csvExists' = TRUE
    /\ lastOp' = "WriteCollected"
    /\ UNCHANGED <<analysisVars, cacheFile, metaFile, snapshotVars>>
    /\ UNCHANGED <<ledgerVars, prevUnits, lastUnits, raised, funcInvocations, attemptLog,
                   retryVars, envVars, procVars, stepVars, cacheVars, putKey, putText,
                   putFresh, opKey, opIo, opRet, pvVars, bucketVars, fetchVars, poolVars,
                   extraVars>>

\* An Enrichment run writes the enriched dataset.
WriteEnriched ==
    /\ \E a \in DatasetContents : analyzed_data' = a
    /\ analyzedExists' = TRUE
    /\ lastOp' = "WriteEnriched"
    /\ UNCHANGED <<analyses, analysisMode, fileVars, snapshotVars>>
    /\ UNCHANGED <<ledgerVars, prevUnits, lastUnits, raised, funcInvocations, attemptLog,
                   retryVars, envVars, procVars, stepVars, cacheVars, putKey, putText,
                   putFresh, opKey, opIo, opRet, pvVars, bucketVars, fetchVars, poolVars,
                   extraVars>>

\* Midnight UTC passes.
NextDay ==
    /\ today < MaxDays
    /\ today' = today + 1
    /\ lastOp' = "NextDay"
    /\ UNCHANGED <<analysisVars, fileVars, historical, prevHistorical>>
    /\ UNCHANGED <<ledgerVars, prevUnits, lastUnits, raised, funcInvocations, attemptLog,
                   retryVars, envVars, procVars, stepVars, cacheVars, putKey, putText,
                   putFresh, opKey, opIo, opRet, pvVars, bucketVars, fetchVars, poolVars,
                   extraVars>>

\* One call of save_historical_snapshot.
SaveSnapshot ==
    /\ historical' = save_historical_snapshot(historical, today, csvExists, cluster_data,
                                              analyzedExists, analyzed_data)
    /\ prevHistorical' = historical
    /\ lastOp' = "save_historical_snapshot"
    /\ UNCHANGED <<analysisVars, fileVars, today>>
    /\ UNCHANGED <<ledgerVars, prevUnits, lastUnits, raised, funcInvocations, attemptLog,
                   retryVars, envVars, procVars, stepVars, cacheVars, putKey, putText,
                   putFresh, opKey, opIo, opRet, pvVars, bucketVars, fetchVars, poolVars,
                   extraVars>>

NextSnapshot == WriteCollected \/ WriteEnriched \/ NextDay \/ SaveSnapshot

SpecSnapshot == InitSnapshot /\ [][NextSnapshot]_vars

\* ------------------------------------------------- utils/metadata_manager.py

\* MetadataManager._default_metadata (created_at plays no part and is left
\* out).
default_metadata ==
    [last_ingest_timestamp |-> NoneTs, last_analysis_timestamp |-> NoneTs,
     total_videos_ingested |-> 0, total_videos_analyzed |-> 0, pipeline_runs |-> <<>>]

\* MetadataManager._load: the document of the file, or the default one when
\* there is no file (<<>>) or reading or decoding it fails.
MetadataManager_load(file, io) == IF io = "ok" THEN file ELSE default_metadata

\* MetadataManager.save: an I/O error is logged and the file stays.
MetadataManager_save(metadata, file, saved) == IF saved THEN metadata ELSE file

update_ingest_total_kept(metadata, timestamp, num_videos) ==
    [metadata EXCEPT
        !.last_ingest_timestamp = timestamp,
        !.pipeline_runs = Append(@, [type |-> "ingest", timestamp |-> timestamp,
                                     videos |-> num_videos])]

\* MetadataManager.update_ingest, up to its save.
update_ingest(metadata, timestamp, num_videos) ==
    [metadata EXCEPT
        !.last_ingest_timestamp = timestamp,
        !.total_videos_ingested = @ + num_videos,
        !.pipeline_runs = Append(@, [type |-> "ingest", timestamp |-> timestamp,
                                     videos |-> num_videos])]

\* MetadataManager.update_analysis, up to its save.
update_analysis(metadata, timestamp, num_videos, num_analyzed) ==
    [metadata EXCEPT
        !.last_analysis_timestamp = timestamp,
        !.total_videos_analyzed = @ + num_analyzed,
        !.pipeline_runs = Append(@, [type |-> "analysis", timestamp |-> timestamp,
                                     total_videos |-> num_videos,
                                     analyzed |-> num_analyzed,
                                     skipped |-> num_videos - num_analyzed])]

\* --------------------------------------------------------------- SpecStages

\* What ingest_clusters can hand back: the ids of the frame, in order.
StageFrames == {<<>>, <<"v1">>, <<"v2">>, <<"v2", "v1">>}

\* The summary column process_video fills in for the rows of a frame.
Summaries == [1..2 -> {"None", "text"}]
Enriched(df, sums) ==
    [i \in 1..Len(df) |->
        [video_id |-> df[i].video_id, cluster |-> df[i].cluster,
         run_timestamp |-> df[i].run_timestamp, summary |-> sums[i]]]

\* df['summary'].notna().sum()
num_analyzed(rows) == Cardinality({i \in 1..Len(rows) : rows[i].summary # "None"})

\* The instant of the stage process that runs next: stage processes run in
\* different seconds.
StageInstant == <<stages + 1, 0>>

InitStages ==
    /\ NoPipeline
    /\ NoCache
    /\ NoBucket
    /\ NoFetch
    /\ NoPool
    /\ NoStages
    /\ NoGate
    /\ today = 1
    /\ historical = [d \in Days |-> [cluster_data |-> Absent, analyzed_data |-> Absent]]
    /\ prevHistorical = historical

\* One process of ingest.py: the metadata is loaded, ingest_clusters dies
\* (died) or returns a frame, and a frame that is not empty is stamped,
\* merged, written, recorded in the metadata and followed by a snapshot.
IngestStage ==
    /\ stages < MaxStages
    /\ \E lio \in ReadIo, argIncremental \in BOOLEAN, argFullRefresh \in BOOLEAN,
          died \in BOOLEAN, got \in StageFrames, saved \in BOOLEAN :
        LET file == IF metaFile = <<>> THEN default_metadata ELSE metaFile
            meta == MetadataManager_load(file, lio)
            mode == determine_incremental_mode(argIncremental, argFullRefresh, meta)
            ts == isoformat(StageInstant)
            df == Stamp(Tag(got, "A"), ts)
            out == merged_output(mode, csvExists, cluster_data, df)
        IN
        /\ metaFile = <<>> => lio = "ok"
        /\ (died \/ got = <<>>) => saved
        /\ died => got = <<>>
        /\ stages' = stages + 1
        /\ loaded' = meta
        /\ stageIo' = <<lio, IF saved THEN "ok" ELSE "error">>
        /\ stageNew' = df
        /\ prevHistorical' = historical
        /\ IF died \/ got = <<>>
           THEN /\ stageOutcome' = IF died THEN "died" ELSE "nodata"
                /\ UNCHANGED <<metaFile, cluster_data, csvExists, historical>>
           ELSE /\ stageOutcome' = "saved"
                /\ cluster_data' = out
                /\ csvExists' = TRUE
                /\ metaFile' = MetadataManager_save(update_ingest(meta, ts, Len(out)),
                                                    file, saved)
                /\ historical' = save_historical_snapshot(historical, today, TRUE, out,
                                                          analyzedExists, analyzed_data)
        /\ lastOp' = "IngestStage"
        /\ UNCHANGED <<analysisVars, cacheFile, today, nonStageVars>>

\* One process of analyze.py: it returns early (no Ollama, no collected
\* dataset) or enriches the rows to process, merges, writes, records the run
\* in the metadata and takes a snapshot.
AnalysisStage ==
    /\ stages < MaxStages
    /\ \E lio \in ReadIo, argIncremental \in BOOLEAN, argFullRefresh \in BOOLEAN,
          ollama \in BOOLEAN, sums \in Summaries, saved \in BOOLEAN :
        LET file == IF metaFile = <<>> THEN default_metadata ELSE metaFile
            meta == MetadataManager_load(file, lio)
            asked == argIncremental
                      \/ (~argFullRefresh /\ should_run_incremental_analysis(meta))
            since == meta.last_analysis_timestamp
            mode == asked /\ since # NoneTs
            rows == IF mode THEN analysis_filter(cluster_data, since) ELSE cluster_data
            df == Enriched(rows, sums)
            out == IF mode /\ analyzedExists THEN analysis_merge(analyzed_data, df) ELSE df
            ts == isoformat(StageInstant)
            ran == ollama /\ csvExists
        IN
        /\ metaFile = <<>> => lio = "ok"
        /\ ~ran => (saved /\ ollama = csvExists)
        /\ \A i \in 1..2 : (~ran \/ i > Len(rows)) => sums[i] = "None"
        /\ stages' = stages + 1
        /\ loaded' = meta
        /\ stageIo' = <<lio, IF saved THEN "ok" ELSE "error">>
        /\ stageNew' = <<>>
        /\ prevHistorical' = historical
        /\ IF ran
           THEN /\ stageOutcome' = "saved"
                /\ analyzed_data' = out
                /\ analyzedExists' = TRUE
                /\ metaFile' = MetadataManager_save(
                                   update_analysis(meta, ts, Len(out), num_analyzed(out)),
                                   file, saved)
                /\ historical' = save_historical_snapshot(historical, today, csvExists,
                                                          cluster_data, TRUE, out)
                /\ analysisMode' = IF mode THEN "incremental" ELSE "full"
           ELSE /\ stageOutcome' = "returned"
                /\ analysisMode' = "returned"
                /\ UNCHANGED <<metaFile, analyzed_data, analyzedExists, historical>>
        /\ lastOp' = "AnalysisStage"
        /\ UNCHANGED <<analyses, cacheFile, csvExists, cluster_data, today,
                       nonStageVars>>

NextStages == IngestStage \/ AnalysisStage

SpecStages == InitStages /\ [][NextStages]_vars

\* ------------------------------------------------------------------ claims

\* C1: a record call raises QuotaExceeded exactly when its post-add total
\* has reached or passed the daily limit, and never while the total is
\* still below the limit.
C1_RaisesExactlyAtLimit ==
    lastOp = "log_youtube_api_call" =>
        (raised = "QuotaExceeded" <=> youtube_units >= DailyLimit)

\* C1 witness: a call whose units bring the total from below the limit to
\* exactly the limit, and which raised.
C1_Witness ==
    /\ lastOp = "log_youtube_api_call"
    /\ prevUnits < DailyLimit
    /\ youtube_units = DailyLimit
    /\ raised = "QuotaExceeded"

\* C2: when a record call raises, its units stay added: the total is the
\* total before the call plus the call's units, at or over the limit.
C2_NoRollbackOnRaise ==
    (lastOp = "log_youtube_api_call" /\ raised = "QuotaExceeded") =>
        /\ youtube_units = prevUnits + lastUnits
        /\ youtube_units >= DailyLimit

\* C2 witness: a raising call that added units and went past the limit.
C2_Witness ==
    /\ lastOp = "log_youtube_api_call"
    /\ raised = "QuotaExceeded"
    /\ lastUnits > 0
    /\ prevUnits < DailyLimit
    /\ youtube_units > DailyLimit

\* C3 (as claimed): a wrapped call made while the quota is exhausted raises
\* QuotaExceeded and never runs the wrapped function.
C3_ExhaustedQuotaBlocksCall ==
    (lastOp = "wrapper" /\ prevUnits >= DailyLimit) =>
        /\ raised = "QuotaExceeded"
        /\ funcInvocations = 0

\* The handle of the last loop step (the loop does not advance when the
\* step's exception left it).
StepHandle ==
    IF runOutcome = "crashed" THEN clusters_config[idx].handle
    ELSE clusters_config[idx - 1].handle

Range(f) == { f[i] : i \in DOMAIN f }

\* C4 (as claimed): once QuotaExceeded has been raised in a Collection run,
\* no later step of that run issues a metered upstream request.
C4_NoCallsAfterQuotaExceeded ==
    (lastOp = "ProcessHandle" /\ raisedBefore) =>
        searchCalls + listCalls = 0

\* C5 (as claimed): when QuotaExceeded was raised in a Collection run, the
\* items collected in the run are in the collected dataset once the process
\* has ended.
C5_PartialResultsPersisted ==
    (pc = "exited" /\ quotaRaised) =>
        /\ all_videos # <<>> => csvExists
        /\ Ids(all_videos) \subseteq Ids(cluster_data)

\* C6 (as claimed): resolving a cached handle makes no search request;
\* resolving an absent handle makes exactly one and stores the binding.
C6_AbsentHandleSearchedOnceAndStored ==
    lastOp = "ProcessHandle" =>
        /\ stepHit => searchCalls = 0
        /\ ~stepHit => (searchCalls = 1 /\ channel_id_cache[StepHandle] # NoChannel)

\* C6 (amended): resolving a cached handle makes no search call and no
\* search charge. Resolving an absent handle makes no search call when its
\* 100-unit charge raises QuotaExceeded, and otherwise exactly one
\* rate-limited search call; the binding is stored exactly when that call
\* returned a channel. With cache_channel_ids on, a process that has ended
\* has written its cache to the cache file, and a new process starts from
\* the file, so a stored binding is a cache hit from then on.
C6_CacheHitNeverSearches ==
    /\ lastOp = "ProcessHandle" =>
        /\ stepHit => (searchCalls = 0 /\ youtube_units - prevUnits <= 2)
        /\ (~stepHit /\ runOutcome = "crashed") => searchCalls = 0
        /\ (~stepHit /\ runOutcome # "crashed") =>
              /\ searchCalls = 1
              /\ stepFound <=> channel_id_cache[StepHandle] # NoChannel
        /\ stepFound => channel_id_cache[StepHandle] = ChannelOf(StepHandle)
    /\ (pc = "exited" /\ cache_channel_ids) => cacheFile = channel_id_cache
    /\ lastOp = "StartIngest" => channel_id_cache = cacheFile

\* C6 witness: in a second process, a handle that the first process
\* resolved by a search is found in the cache and no search request is made.
C6_Witness ==
    /\ runs = 2
    /\ lastOp = "ProcessHandle"
    /\ stepHit
    /\ searchCalls = 0
    /\ cacheFile[StepHandle] = ChannelOf(StepHandle)

\* C7 (as claimed): within a run, the uploads-playlist lookup of a channel
\* is charged to the ledger at most once.
C7_PlaylistLookupChargedOnce ==
    \A c \in Channels : lookupCharges[c] <= 1

\* C8 (as claimed): with since-instant T, the filter keeps exactly the
\* fetched items whose publish instant is at or after T.
C8_FilterKeepsExactlyAtOrAfterSince ==
    (lastOp = "ProcessHandle" /\ incremental) =>
        \A i \in 1..Len(stepFetched) :
            (stepFetched[i] \in Range(stepKept)) <=>
                NotBefore(<<PublishSec(stepFetched[i]), 0>>, InstantOf(last_run))

\* C9 (as claimed): a run that started with no previous ingest recorded
\* writes its own result as the collected dataset, whatever mode was asked
\* for: nothing of an already persisted dataset is merged in.
C9_FirstRunWritesFullResult ==
    (lastOp = "FinishIngest" /\ runOutcome = "saved" /\ noPrevRun) =>
        /\ Len(cluster_data) = Len(all_videos)
        /\ \A i \in 1..Len(all_videos) :
              /\ cluster_data[i].video_id = all_videos[i].video_id
              /\ cluster_data[i].cluster = all_videos[i].cluster

UniqueIds(rows) ==
    \A i \in 1..Len(rows), j \in 1..Len(rows) :
        rows[i].video_id = rows[j].video_id => i = j

\* C10 (as claimed): an incremental Collection run leaves the collected
\* dataset, and an incremental Enrichment run leaves the enriched dataset,
\* with every item id at most once and with every id it held before the run.
C10_IncrementalRunsKeepIdsUnique ==
    [][ /\ (pc = "loop" /\ pc' = "exited" /\ incremental /\ runOutcome' = "saved") =>
            /\ UniqueIds(cluster_data')
            /\ Ids(cluster_data) \subseteq Ids(cluster_data')
        /\ (analyses' = analyses + 1 /\ analysisMode' = "incremental") =>
            /\ UniqueIds(analyzed_data')
            /\ Ids(analyzed_data) \subseteq Ids(analyzed_data') ]_vars

\* C11: a get_transcript of a key, made after a save_transcript of a value
\* under that key succeeded and with no later write of the key's file,
\* returns exactly that value; a key whose file was never written returns
\* absent. (Calls whose file operation fails are left aside.)
C11_GetReturnsWhatWasPut ==
    (lastOp = "get_transcript" /\ opIo = "ok")
        => /\ (opKey = putKey /\ putFresh) => opRet = putText
           /\ transcript_files[opKey] = Absent => opRet = NoText

C13_CachedResultGivesSameRecord ==
    (/\ lastOp = "process_video"
     /\ pvCached \notin {Absent, Partial}
     /\ pvFetched = 0
     /\ pvIo[2] # "error")
        => /\ pvInference = 0
           /\ pvResult = RecordOf(pvCached.data)

\* C14: whenever the item's transcript file exists and is read, whatever it
\* holds, get_transcript returns its text and makes no upstream fetch.
C14_CachedEntryNeverFetches ==
    [][(/\ lastOp' = "process_video"
        /\ transcript_files[opKey'] # Absent
        /\ pvIo'[1] = "ok")
           => /\ pvFetched' = 0
              /\ pvTranscript' = CacheManager_get_transcript(transcript_files, opKey', "ok")]_vars

\* C15: when the transcript is absent or shorter than 100 characters,
\* process_video returns the all-null record and posts nothing to the
\* inference server.
C15_ShortTranscriptSkipsAnalysis ==
    (/\ lastOp = "process_video"
     /\ (pvTranscript = NoText \/ len(pvTranscript) < MinTranscriptLen))
        => /\ pvResult = NullRecord
           /\ pvInference = 0

\* C15 witness: a transcript of 99 characters was obtained.
C15_Witness ==
    /\ lastOp = "process_video"
    /\ pvTranscript # NoText
    /\ len(pvTranscript) = MinTranscriptLen - 1
    /\ pvResult = NullRecord
    /\ pvInference = 0

\* C16: of a fresh bucket of burst B and rate R, the acquires that take the
\* first B tokens return without having waited for a refill, and the acquire
\* that takes the (B+1)-th token returns no earlier than 1/R after the bucket
\* was made (TokenScale ticks).
C16_BurstThenRefillWait ==
    lastOp = "acquired" =>
        /\ spent <= Capacity => ~slept[who]
        /\ (spent > Capacity /\ clock < MaxTime) => clock >= TokenScale

\* C16 witness: the burst was taken at once, the next acquire has waited and
\* returns exactly 1/R after the bucket was made.
C16_Witness ==
    /\ lastOp = "acquired"
    /\ spent = Capacity + TokenScale
    /\ clock = TokenScale
    /\ slept[who]

\* C17: with concurrent callers the token count stays within 0..burst, one
\* thread at a time checks and debits, and the tokens debited by time t plus
\* those left never exceed burst + rate * t: no token is spent twice and the
\* acquires completed by t are at most burst + rate * t.
C17_NoDoubleSpend ==
    /\ tokens >= 0
    /\ tokens <= Capacity
    /\ Cardinality({t \in Threads : tpc[t] \in {"loop", "debit"}}) <= 1
    /\ clock < MaxTime => spent + tokens <= Capacity + clock

\* C17 witness: one thread is about to debit the last tokens while the other
\* stands at the lock.
C17_Witness ==
    \E t \in Threads, u \in Threads :
        /\ tpc[t] = "debit"
        /\ tpc[u] = "enter"
        /\ tokens = want[t] * TokenScale
        /\ spent > 0

C19_RetriesExactlyEligibleErrors ==
    (lastOp = "wrapper" /\ enabled) =>
        LET eligible(o) == o \in {"http500", "http429", "http403quota"}
            last == Len(attemptLog)
        IN /\ \A i \in 1..(last - 1) : eligible(attemptLog[i])
           /\ (last < MaxRetries /\ attemptLog[last] # "ok") => ~eligible(attemptLog[last])
           /\ (attemptLog[1] # "ok" /\ ~eligible(attemptLog[1]))
                 => (last = 1 /\ funcInvocations = 1 /\ raised # "none")

\* C19 witness: a 403 with a quota reason was retried and the retry failed
\* with a 404, which ended the call.
C19_Witness ==
    /\ lastOp = "wrapper"
    /\ enabled
    /\ attemptLog = <<"http403quota", "http404">>
    /\ raised = "HttpError"

\* C20: a wrapped call whose every attempt fails with a retry-eligible error
\* is invoked exactly max_retries times, never more, and what the wrapper
\* raises is the HttpError of the last attempt, not a RetryError.
C20_ExhaustedRetriesReraiseLastError ==
    (lastOp = "wrapper" /\ enabled) =>
        /\ funcInvocations <= MaxRetries
        /\ funcInvocations = Len(attemptLog)
        /\ (\A i \in 1..Len(attemptLog) : should_retry(attemptLog[i]))
              => /\ funcInvocations = MaxRetries
                 /\ raised = ExceptionOf(attemptLog[Len(attemptLog)])
                 /\ raised = "HttpError"

\* C20 witness: every attempt failed with a 500 or a 429.
C20_Witness ==
    /\ lastOp = "wrapper"
    /\ enabled
    /\ funcInvocations = MaxRetries
    /\ \A i \in 1..MaxRetries : attemptLog[i] \in {"http500", "http429"}
    /\ raised = "HttpError"

\* C21: a wrapped call of an enabled limiter whose every attempt fails with
\* a retry-eligible error, up to the last allowed one, adds one to the
\* ledger's rate_limit_errors.
C21_ExhaustedRetriesCounted ==
    [][(/\ lastOp' = "wrapper"
        /\ enabled
        /\ Len(attemptLog') = MaxRetries
        /\ \A i \in 1..MaxRetries : should_retry(attemptLog'[i]))
           => rate_limit_errors' = rate_limit_errors + 1]_vars

\* C22: a wrapped call of an enabled limiter that made k retries (k + 1
\* attempts) adds k to the ledger's retry_attempts.
C22_RetriesCounted ==
    [][(lastOp' = "wrapper" /\ enabled)
           => retry_attempts' = retry_attempts + (Len(attemptLog') - 1)]_vars

C24_EveryPageCollected ==
    (/\ lastOp = "ProcessHandle"
     /\ raised = "none"
     /\ listCalls = 2
     /\ youtube_units - prevUnits - searchCalls * SearchCost
            = PlaylistLookupCost + PlaylistItemsCost)
        => LET all == PublishedBy(Uploads(ChannelOf(clusters_config[idx - 1].handle)),
                                  now[1])
           IN  stepFetched = SkipPrivate(SubSeq(all, 1, Min(VideosPerChannel, Len(all))))

\* C25: a failure while a handle is resolved or its listing fetched leaves
\* the Collection loop running: the handle adds no item and the loop goes on
\* to the next handle.
C25_HandleFailureNeverAborts ==
    (lastOp = "ProcessHandle" /\ raised # "none")
        => (pc = "loop" /\ runOutcome = "running" /\ stepKept = <<>>)

C27_WorkerFailureIsolated ==
    collected = DOMAIN poolDf =>
        \A i \in DOMAIN poolDf :
            /\ results[poolDf[i]] # NoEntry
            /\ wout[i] = "raised" => results[poolDf[i]] = worker_result(poolDf[i], "null")
            /\ wout[i] # "raised" => results[poolDf[i]] = worker_result(poolDf[i], wout[i])

\* C28: the mapping is made only when every worker has finished, and then
\* every row carries the fields its own worker computed, so the merged
\* frame is the same whatever the order in which the workers completed.
C28_MergeByIdentityAfterAll ==
    merged # <<>> =>
        \A i \in DOMAIN poolDf :
            /\ wpc[i] = "done"
            /\ merged[i] = worker_result(poolDf[i], IF wout[i] = "raised" THEN "null"
                                                    ELSE wout[i]).fields

\* C29: when every worker has finished, gemini_calls has grown by one for
\* each log_gemini_api_call the workers made.
C29_NoLostLedgerUpdate ==
    (\A i \in DOMAIN poolDf : wpc[i] = "done") => gemini_calls = ledgerCalls

\* C30: after save_historical_snapshot the directory of the current date
\* holds an exact copy of each dataset file that exists, whatever it held
\* before, and the directory of every other date is as it was.
C30_SnapshotCopiesCurrentDatasets ==
    lastOp = "save_historical_snapshot" =>
        /\ csvExists => historical[today].cluster_data = File(cluster_data)
        /\ analyzedExists => historical[today].analyzed_data = File(analyzed_data)
        /\ \A d \in Days \ {today} : historical[d] = prevHistorical[d]

\* A second snapshot on a date replaced both copies of that date, while an
\* earlier date keeps its own.
C30_Witness ==
    /\ lastOp = "save_historical_snapshot"
    /\ today = 2
    /\ historical[1].cluster_data.exists
    /\ prevHistorical[2].cluster_data.exists
    /\ prevHistorical[2].analyzed_data.exists
    /\ historical[2].cluster_data # prevHistorical[2].cluster_data
    /\ historical[2].analyzed_data # prevHistorical[2].analyzed_data
    /\ historical[2].cluster_data # historical[1].cluster_data

\* C31: a get_transcript whose read of an existing file fails returns None
\* and is counted as a miss; a save_transcript whose write fails returns
\* False.
C31_FailedReadIsAMiss ==
    /\ (lastOp = "get_transcript" /\ transcript_files[opKey] # Absent /\ opIo = "error")
           => (opRet = NoText /\ counted = "cache_misses")
    /\ (lastOp = "save_transcript" /\ opIo # "ok") => opRet = [returned |-> FALSE]

\* C32: a stage process that died, collected nothing or returned early leaves
\* the persisted metadata as it was, and a stage process that recorded its
\* run leaves the other stage's last timestamp and counter as they were.
C32_MetadataOwnedByStage ==
    [][/\ stageOutcome' \in {"died", "nodata", "returned"} => metaFile' = metaFile
       /\ (lastOp' = "IngestStage" /\ metaFile # <<>>)
              => /\ metaFile'.last_analysis_timestamp = metaFile.last_analysis_timestamp
                 /\ metaFile'.total_videos_analyzed = metaFile.total_videos_analyzed
       /\ (lastOp' = "AnalysisStage" /\ metaFile # <<>>)
              => /\ metaFile'.last_ingest_timestamp = metaFile.last_ingest_timestamp
                 /\ metaFile'.total_videos_ingested = metaFile.total_videos_ingested
      ]_<<metaFile, stages>>

\* C33: log_summary logs the high-usage warning exactly when the units spent
\* are more than 80% of the configured daily limit.
C33_WarningAboveEightyPercent ==
    lastOp = "log_summary" => (warned <=> 5 * youtube_units > 4 * DailyLimit)

\* C34: a Collection process alone takes no snapshot, and a snapshot
\* directory that holds a copy of the collected dataset holds a copy of the
\* enriched dataset made from it: every collected row is there, with the
\* stamp of the same Collection run.
C34_SnapshotAfterBothStages ==
    /\ lastOp = "IngestStage" => historical = prevHistorical
    /\ \A d \in Days :
         historical[d].cluster_data.exists =>
            /\ historical[d].analyzed_data.exists
            /\ \A i \in 1..Len(historical[d].cluster_data.content) :
                 \E j \in 1..Len(historical[d].analyzed_data.content) :
                    LET c == historical[d].cluster_data.content[i]
                        a == historical[d].analyzed_data.content[j]
                    IN  a.video_id = c.video_id /\ a.run_timestamp = c.run_timestamp

\* C35: an incremental Enrichment run never replaces the non-null summary
\* of a row of the persisted enriched dataset by null.
C35_IncrementalKeepsEnrichment ==
    [][(lastOp' = "AnalysisStage" /\ analysisMode' = "incremental")
          => \A i \in 1..Len(analyzed_data) :
                analyzed_data[i].summary # "None"
                   => \E j \in 1..Len(analyzed_data') :
                         /\ analyzed_data'[j].video_id = analyzed_data[i].video_id
                         /\ analyzed_data'[j].summary # "None"
      ]_<<analyzed_data, stages>>

\* C36: a Collection process that read and wrote the metadata increases the
\* lifetime collected counter by the number of items it collected itself.
C36_CounterCountsNewItems ==
    [][(/\ lastOp' = "IngestStage"
        /\ stageOutcome' = "saved"
        /\ stageIo' = <<"ok", "ok">>
        /\ metaFile # <<>>)
          => metaFile'.total_videos_ingested
                = metaFile.total_videos_ingested + Len(stageNew')
      ]_<<metaFile, stages>>

\* The sum of one count over the entries of one type of the run log.
RECURSIVE SumRuns(_, _)
SumRuns(pipeline_runs, type) ==
    IF pipeline_runs = <<>> THEN 0
    ELSE LET e == Head(pipeline_runs)
             n == IF e.type # type THEN 0
                  ELSE IF type = "ingest" THEN e.videos ELSE e.analyzed
         IN  n + SumRuns(Tail(pipeline_runs), type)

\* C38: in the metadata document the two lifetime totals are the sums of
\* the counts of the ingest entries and of the analyzed counts of the analysis
\* entries of the run log, and an update that was saved left the log it was
\* given, with exactly one entry appended.
C38_TotalsAreSumsOfRunLog ==
    /\ metaFile # <<>> =>
          /\ metaFile.total_videos_ingested = SumRuns(metaFile.pipeline_runs, "ingest")
          /\ metaFile.total_videos_analyzed = SumRuns(metaFile.pipeline_runs, "analysis")
    /\ (stageOutcome = "saved" /\ stageIo[2] = "ok") =>
          /\ Len(metaFile.pipeline_runs) = Len(loaded.pipeline_runs) + 1
          /\ SubSeq(metaFile.pipeline_runs, 1, Len(loaded.pipeline_runs))
                = loaded.pipeline_runs
          /\ metaFile.pipeline_runs[Len(metaFile.pipeline_runs)].type
                = (IF lastOp = "IngestStage" THEN "ingest" ELSE "analysis")

C38_Witness ==
    /\ stageOutcome = "saved"
    /\ stageIo = <<"ok", "ok">>
    /\ Len(metaFile.pipeline_runs) >= 3
    /\ metaFile.total_videos_ingested >= 3
    /\ metaFile.total_videos_analyzed >= 1

\* C37: a handle resolution that misses the cache adds exactly 100 units
\* to the ledger and one that hits adds none (the listing that follows a
\* resolved handle adds at most its own two units). The charge comes before
\* the search call: it is made even when it ends the run before any search,
\* and when the search fails or finds no channel; the handle is then not
\* cached, so its next resolution misses and is charged again.
C37_MissChargedBeforeSearch ==
    lastOp = "ProcessHandle" =>
        LET charged == youtube_units - prevUnits
            listing == PlaylistLookupCost + PlaylistItemsCost
        IN  /\ stepHit => charged \in 0..listing
            /\ ~stepHit => charged \in SearchCost..(SearchCost + listing)
            /\ (~stepHit /\ searchCalls = 0) =>
                  (charged = SearchCost /\ raised = "QuotaExceeded")
            /\ (~stepHit /\ ~stepFound) =>
                  /\ charged = SearchCost
                  /\ channel_id_cache[StepHandle] = NoChannel

\* C37 witness: the second entry of a handle whose first search found no
\* channel: it misses again, is charged again and fails again.
C37_Witness ==
    /\ lastOp = "ProcessHandle"
    /\ idx = 3
    /\ runOutcome = "running"
    /\ ~stepHit
    /\ ~stepFound
    /\ searchCalls = 1
    /\ youtube_units - prevUnits = SearchCost
    /\ youtube_units >= 2 * SearchCost

\* C39: a wrapped call of an enabled metered limiter acquires one token,
\* before the first attempt, and none for its retries; it adds at most one
\* to the ledger's throttle counter, and adds it exactly when the wait of
\* that acquire was above 0.01 s.
C39_OneTokenPerWrappedCall ==
    [][(lastOp' = "wrapper" /\ enabled)
          => /\ wrapTrace'[1] = "acquire"
             /\ Count(wrapTrace', "acquire") = 1
             /\ Count(wrapTrace', "func") = funcInvocations'
             /\ api_calls_throttled' - api_calls_throttled
                   = (IF acquireDelay' > ThrottleThreshold THEN 1 ELSE 0)
      ]_vars

\* C39 witness: a call that waited more than 0.01 s for its token and then
\* made every allowed attempt.
C39_Witness ==
    /\ lastOp = "wrapper"
    /\ enabled
    /\ acquireDelay > ThrottleThreshold
    /\ funcInvocations = MaxRetries
    /\ api_calls_throttled >= 1
    /\ wrapTrace[1] = "acquire"

====
